---- MODULE Spec2Model ----
(***************************************************************************)
(* Model of the terminal automation engine ClaudeSquadAutomator            *)
(* (src/mcp-server/claude_squad_mcp/terminal_automator.py).                *)
(*                                                                         *)
(* One caller invokes the engine's coroutines one after the other; a call  *)
(* is a sequence of steps separated by its await points.  Between any two  *)
(* steps the spawned processes may exit on their own and the output        *)
(* callback may redraw the screen.                                         *)
(*                                                                         *)
(* Time is counted in ticks of 100 ms, the sample interval of the wait     *)
(* loops; `now` is the time elapsed since the current call started.        *)
(* asyncio.sleep(d) suspends for at least d: a sleep advances `now` by d   *)
(* plus a scheduling delay of 0..MaxJitter ticks.                          *)
(*                                                                         *)
(* Strings of the program (key names, byte sequences written to the pty)   *)
(* are sequences of code points, so that 'up' and '\x1b[A' are values the  *)
(* model can compare; all of them are ASCII, for which the utf-8 encoding  *)
(* done by pexpect's send() is the code point itself.                      *)
(***************************************************************************)
EXTENDS Integers, Sequences, FiniteSets, TLC

(* ---------------------------- bounds ----------------------------------- *)

\* number of processes the engine may spawn in one behaviour
MaxSpawns == 2
\* number of distinct screen texts the automated program can draw
NumTexts == 2
\* largest scheduling delay added to a sleep, in ticks
MaxJitter == 1

(* ----------------------- program constants (ticks) --------------------- *)

\* await asyncio.sleep(2) in start_claude_squad
StartSleep == 20
\* _wait_for_ui_update(timeout = 2.0)
UpdateTimeout == 20
\* await asyncio.sleep(0.1) in both wait loops
SampleInterval == 1
\* await asyncio.sleep(0.2) after a detected change
SettleDelay == 2
\* _wait_for_ui_stable(timeout = 3.0)
StableTimeout == 30
\* stable_period = 0.5
StablePeriod == 5
\* await asyncio.sleep(1) after the quit key
StopT1 == 10
\* await asyncio.sleep(1) after terminate()
StopT2 == 10

\* Python's None for the optional locals and fields that hold numbers
None == 0 - 1

\* the characters the parsers look for (code points): the status glyphs
\* of a running or ready, a paused and a stopped instance, the block of a
\* highlighted cell, and the two menu separators
GlyphDot == 9679
GlyphPause == 9208
GlyphRing == 9675
GlyphBlock == 9608
BoxBar == 9474
AsciiBar == 124

\* the most digits int() converts
MaxStrDigits == 4300

\* the default terminal size of the constructor
DefaultWidth == 120
DefaultHeight == 30

(* --------------------------- key table --------------------------------- *)

\* self.key_mappings as the set of its (name, sequence) entries:
\* 'up' '\x1b[A', 'down' '\x1b[B', 'left' '\x1b[D', 'right' '\x1b[C',
\* 'tab' '\t', 'enter' '\r', 'escape' '\x1b', 'shift_up' '\x1b[1;2A',
\* 'shift_down' '\x1b[1;2B', 'ctrl_c' '\x03', then n N D c r p P q ? o
KeyTable ==
    { <<<<117, 112>>, <<27, 91, 65>>>>,
      <<<<100, 111, 119, 110>>, <<27, 91, 66>>>>,
      <<<<108, 101, 102, 116>>, <<27, 91, 68>>>>,
      <<<<114, 105, 103, 104, 116>>, <<27, 91, 67>>>>,
      <<<<116, 97, 98>>, <<9>>>>,
      <<<<101, 110, 116, 101, 114>>, <<13>>>>,
      <<<<101, 115, 99, 97, 112, 101>>, <<27>>>>,
      <<<<115, 104, 105, 102, 116, 95, 117, 112>>, <<27, 91, 49, 59, 50, 65>>>>,
      <<<<115, 104, 105, 102, 116, 95, 100, 111, 119, 110>>, <<27, 91, 49, 59, 50, 66>>>>,
      <<<<99, 116, 114, 108, 95, 99>>, <<3>>>>,
      <<<<110>>, <<110>>>>, <<<<78>>, <<78>>>>, <<<<68>>, <<68>>>>,
      <<<<99>>, <<99>>>>, <<<<114>>, <<114>>>>, <<<<112>>, <<112>>>>,
      <<<<80>>, <<80>>>>, <<<<113>>, <<113>>>>, <<<<63>>, <<63>>>>,
      <<<<111>>, <<111>>>> }

\* the dictionary itself: name -> sequence
key_mappings ==
    [k \in {e[1] : e \in KeyTable} |-> (CHOOSE e \in KeyTable : e[1] = k)[2]]

\* the key name is sent as it is, untranslated
KeyLookup_untranslated(k) == k

\* self.key_mappings.get(key, key)
KeyLookup(k) == IF k \in DOMAIN key_mappings THEN key_mappings[k] ELSE k

\* symbols the caller may pass that the table does not hold: 'x', 'F5', ''
UnknownKeys == { <<120>>, <<70, 53>>, << >> }

\* the keys a caller passes to send_key
Keys == DOMAIN key_mappings \cup UnknownKeys

\* the texts a caller passes to send_text: 'hi' and 'up' (a text that is
\* also a key name; send_text does not translate)
Texts == { <<104, 105>>, <<117, 112>> }

(* ------------------------------ state ---------------------------------- *)

VARIABLES
    process,      \* self.process: 0 for None, else the pid of the spawned child
    running,      \* self._running
    screen,       \* the text held by self.screen (an id in 0..NumTexts-1)
    alive,        \* the pids of the children that have not exited
    nspawn,       \* how many children were spawned so far
    pc,           \* the caller's position: "idle", a step of a call, "done"
    op,           \* the coroutine being run
    arg,          \* its key or text argument
    wait,         \* its wait_for_update argument
    now,          \* ticks since the call started
    result,       \* "pending", "True", "False", "None" (stop returned), "raised"
    start_hash,   \* _wait_for_ui_update: start_hash
    start_time,   \* both wait loops: start_time
    last_hash,    \* _wait_for_ui_stable: last_hash
    stable_start, \* _wait_for_ui_stable: stable_start
    wait_result,  \* what the wait loop run by this call returned
    writes,       \* the byte sequences this call wrote to the pty
    acts,         \* stop(): its liveness checks and escalation steps, in order
    changed_at,   \* _wait_for_ui_update: when a differing sample was seen
    wfail,        \* the write of this call raised
    session,      \* "never", "failed", "active", "stopping", "stopped"
    pre,          \* process, running and session when the call began
    ws_hist,      \* _wait_for_ui_stable: what its samples were like so far:
                  \* "none", "first" (one sample), "const" (each equal to the
                  \* one before), "alt" (each different from the one
                  \* before), "mixed"
    ws_prev,      \* _wait_for_ui_stable: the sample before this one
    ws_run,       \* _wait_for_ui_stable: when the first sample of the current
                  \* run of identical samples was taken
    width,        \* self.width
    height,       \* self.height
    buffer,       \* self.screen.buffer: the rows of the grid, top to bottom,
                  \* each the code points drawn into it from its left end
                  \* (the cells to the right of them are blank)
    state,        \* the ScreenState the last get_screen_content() returned
    prev_state,   \* the ScreenState the call before it returned
    captures,     \* get_screen_content() calls since the grid last changed
                  \* (counted up to 2)
    pty_dims,     \* the dimensions (rows, columns) the last pty was spawned with
    spc,          \* a stop() running as a second task: "idle" (not called),
                  \* "after_quit", "after_terminate" (in its sleeps), "done",
                  \* "raised"
    swake,        \* when the sleep of that stop() ends
    sdone_at,     \* when that stop() returned
    tool,         \* handle_call_tool: the tool being handled, or "none"
    tpc,          \* its position: "idle", "keys" (sending its keys), "sleep"
                  \* (the pause of kill_instance), "replied", "raised" (an
                  \* exception left the handler)
    targ,         \* its argument: confirm, the tab, the index, the key, or
                  \* the URI of the resource
    tread,        \* what it read from the screen at its start: the current
                  \* tab and the selected instance
    tleft,        \* the keys it has still to pass to send_key, in order
    tsent,        \* the keys it has passed to send_key, in order
    twrites,      \* the byte sequences written to the pty during it
    treply,       \* the text it returned
    store,        \* the triples of the orchestrator's store about tasks:
                  \* <<subject, predicate, object>>
    ready,        \* the ids of the rows the last get_ready_tasks returned
    rlimit,       \* the limit it was called with (0: no result is held,
                  \* or the store has changed since)
    calls,        \* two tool calls handled at the same time, as tasks 1 and
                  \* 2 of the event loop: for each its tool ("none": not
                  \* called), the steps it has still to take, and where it
                  \* is ("idle", "ready" to run, "waiting" in an await,
                  \* "done")
    ptylog,       \* what these calls wrote to the pty, in order:
                  \* <<task, bytes>>
    upd,          \* the enhanced orchestrator: for each request thread the
                  \* update_task_status call it is in: its task, its status,
                  \* and where it is ("idle", or "removed": the old status
                  \* is removed and the new one not yet added)
    inventory,    \* OrderProcessor.inventory, as the set of its entries
                  \* [sku, quantity, price, category], one per sku
    processed_orders, \* OrderProcessor.processed_orders
    oresult       \* what the last process_order returned (<< >>: nothing yet)

progvars == <<process, running, screen>>
envvars  == <<alive, nspawn>>
callvars == <<pc, op, arg, wait, now, result>>
locals   == <<start_hash, start_time, last_hash, stable_start>>
obsvars  == <<wait_result, writes, acts, changed_at, wfail, session, pre>>
wsobs    == <<ws_hist, ws_prev, ws_run>>
parsevars == <<width, height, buffer, state, prev_state, captures>>
concvars == <<spc, swake, sdone_at>>
toolvars == <<tool, tpc, targ, tread, tleft, tsent, twrites, treply>>
taskvars == <<store, ready, rlimit>>
sharedvars == <<calls, ptylog>>
threadvars == <<upd>>
ordervars == <<inventory, processed_orders, oresult>>
latervars == <<concvars, toolvars, taskvars, sharedvars, threadvars, ordervars>>
\* what a stop() run as a second task, a tool, or the orchestrator leaves alone
conc_rest == <<toolvars, taskvars, sharedvars, threadvars, ordervars>>
tool_rest == <<concvars, taskvars, sharedvars, threadvars, ordervars>>
task_rest == <<concvars, toolvars, sharedvars, threadvars, ordervars>>
shared_rest == <<concvars, toolvars, taskvars, threadvars, ordervars>>
thread_rest == <<concvars, toolvars, sharedvars, ordervars>>
order_rest == <<concvars, toolvars, taskvars, sharedvars, threadvars>>
vars     == <<progvars, envvars, callvars, locals, obsvars, wsobs, parsevars,
              pty_dims, latervars>>

Pids == 1..MaxSpawns
ScreenTexts == 0..(NumTexts - 1)

\* _get_screen_hash: a digest of the screen text; distinct texts of the
\* model get distinct digests, and no digest is None
get_screen_hash(s) == s + 1

\* time.time() - t0 after an asyncio.sleep(d) that began at `now`
SleepEnds(d) == { now + d + j : j \in 0..MaxJitter }

\* the state a call starts from
Snapshot ==
    [process |-> process, running |-> running, session |-> session,
     dead |-> (process = 0 \/ process \notin alive)]

NoSnapshot == [process |-> 0, running |-> FALSE, session |-> "never", dead |-> TRUE]

SessionInit ==
    /\ process = 0
    /\ running = FALSE
    /\ screen = 0
    /\ alive = {}
    /\ nspawn = 0
    /\ pc = "idle"
    /\ op = "none"
    /\ arg = << >>
    /\ wait = FALSE
    /\ now = 0
    /\ result = "pending"
    /\ start_hash = None
    /\ start_time = None
    /\ last_hash = None
    /\ stable_start = None
    /\ wait_result = "none"
    /\ writes = << >>
    /\ acts = << >>
    /\ changed_at = None
    /\ wfail = FALSE
    /\ session = "never"
    /\ pre = NoSnapshot
    /\ ws_hist = "none"
    /\ ws_prev = None
    /\ ws_run = None
    /\ pty_dims = << >>
    /\ spc = "idle"
    /\ swake = None
    /\ sdone_at = None
    /\ tool = "none"
    /\ tpc = "idle"
    /\ targ = << >>
    /\ tread = << >>
    /\ tleft = << >>
    /\ tsent = << >>
    /\ twrites = << >>
    /\ treply = << >>
    /\ store = {}
    /\ ready = << >>
    /\ rlimit = 0
    /\ calls = [t \in {1, 2} |-> [tool |-> "none", left |-> << >>, at |-> "idle"]]
    /\ ptylog = << >>
    /\ upd = [th \in {1, 2} |-> [task |-> 0, status |-> "", at |-> "idle"]]
    /\ inventory = {}
    /\ processed_orders = << >>
    /\ oresult = << >>

\* ClaudeSquadAutomator(): the default size, nothing drawn, nothing read
Init ==
    /\ SessionInit
    /\ width = DefaultWidth
    /\ height = DefaultHeight
    /\ buffer = << >>
    /\ state = << >>
    /\ prev_state = << >>
    /\ captures = 0

\* a call begins: its bookkeeping
Begin(name, a, w) ==
    /\ pc = "idle"
    /\ op' = name
    /\ arg' = a
    /\ wait' = w
    /\ pre' = Snapshot

\* a call ends with value r
Finish(r) ==
    /\ pc' = "done"
    /\ result' = r

(* ------------------------- the environment ----------------------------- *)

\* a child exits on its own, or because of a key or signal it received
ProcExit(p) ==
    /\ p \in alive
    /\ alive' = alive \ {p}
    /\ UNCHANGED <<progvars, nspawn, callvars, locals, obsvars>>
    /\ UNCHANGED <<wsobs, parsevars, pty_dims, latervars>>

\* _capture_output(data): output of the child is fed to the emulator, which
\* redraws the screen.  The callback is registered on the handle by
\* start_claude_squad; it runs when the reader of the child's output calls it
capture_output(t) ==
    /\ process # 0
    /\ t # screen
    /\ screen' = t
    /\ UNCHANGED <<process, running, envvars, callvars, locals, obsvars>>
    /\ UNCHANGED <<wsobs, parsevars, pty_dims, latervars>>

(* --------------------------- wait loops -------------------------------- *)

\* entering _wait_for_ui_stable at time t: its locals
EnterStable(t) ==
    /\ last_hash' = None
    /\ stable_start' = None
    /\ start_time' = t
    /\ ws_hist' = "none"
    /\ ws_prev' = None
    /\ ws_run' = None
    /\ UNCHANGED start_hash

\* what the caller of the wait does with the value it returns
\* start_claude_squad ignores it and returns True; send_key and send_text
\* return it
AfterWait(r) ==
    /\ wait_result' = r
    /\ Finish(IF op = "start" THEN "True" ELSE r)

\* the loop test of _wait_for_ui_stable with the timeout mistaken for the
\* stability period
StableExpired_early == now - start_time >= StablePeriod

\* not (time.time() - start_time < timeout)
StableExpired == ~(now - start_time < StableTimeout)

\* the stability test with the period mistaken for the timeout
StableReached_timeout == now - stable_start >= StableTimeout

\* time.time() - stable_start >= stable_period
StableReached == now - stable_start >= StablePeriod

\* a differing sample that leaves the stability tracking as it is
ResetTracking_kept == UNCHANGED stable_start

\* stable_start = None on a sample that differs from the last
ResetTracking == stable_start' = None

\* a sample h is taken at time `now`: how it relates to the one before
Sampled(h) ==
    /\ ws_prev' = h
    /\ ws_run' = IF ws_hist = "none" \/ h # ws_prev THEN now ELSE ws_run
    /\ ws_hist' =
          IF ws_hist = "none" THEN "first"
          ELSE LET kind == IF h = ws_prev THEN "const" ELSE "alt" IN
               IF ws_hist \in {"first", kind} THEN kind ELSE "mixed"

\* one pass of the loop of _wait_for_ui_stable: the timeout test, the sample
\* and its comparison, then await asyncio.sleep(0.1)
wait_for_ui_stable ==
    /\ pc = "ws_loop"
    /\ IF ~StableExpired
       THEN LET current_hash == get_screen_hash(screen) IN
            /\ Sampled(current_hash)
            /\ IF current_hash = last_hash
               THEN IF stable_start = None
                    THEN /\ stable_start' = now
                         /\ now' \in SleepEnds(SampleInterval)
                         /\ UNCHANGED <<last_hash, pc, result, wait_result>>
                    ELSE IF StableReached
                         THEN /\ AfterWait("True")
                              /\ UNCHANGED <<last_hash, stable_start, now>>
                         ELSE /\ now' \in SleepEnds(SampleInterval)
                              /\ UNCHANGED <<last_hash, stable_start, pc, result,
                                             wait_result>>
               ELSE /\ ResetTracking
                    /\ last_hash' = current_hash
                    /\ now' \in SleepEnds(SampleInterval)
                    /\ UNCHANGED <<pc, result, wait_result>>
       ELSE /\ AfterWait("False")
            /\ UNCHANGED <<last_hash, stable_start, now, wsobs>>
    /\ UNCHANGED <<progvars, envvars, op, arg, wait, start_hash, start_time,
                   writes, acts, changed_at, wfail, session, pre>>
    /\ UNCHANGED <<parsevars, pty_dims, latervars>>

\* the loop test of _wait_for_ui_update with the timeout mistaken for the
\* sample interval
UpdateExpired_early == now - start_time >= SampleInterval

\* the loop test of _wait_for_ui_update with a timeout longer by that of
\* _wait_for_ui_stable
UpdateExpired_late == ~(now - start_time < UpdateTimeout + StableTimeout)

\* not (time.time() - start_time < timeout)
UpdateExpired == ~(now - start_time < UpdateTimeout)

\* one pass of the loop of _wait_for_ui_update: the timeout test, then
\* await asyncio.sleep(0.1), the sample and its comparison with start_hash
wait_for_ui_update ==
    /\ pc = "wu_loop"
    /\ IF UpdateExpired
       THEN /\ AfterWait("False")
            /\ UNCHANGED <<now, changed_at>>
       ELSE /\ now' \in SleepEnds(SampleInterval)
            /\ IF get_screen_hash(screen) # start_hash
               THEN /\ changed_at' = now'
                    /\ pc' = "wu_settle"
               ELSE UNCHANGED <<changed_at, pc>>
            /\ UNCHANGED <<result, wait_result>>
    /\ UNCHANGED <<progvars, envvars, op, arg, wait, locals, writes, acts,
                   wfail, session, pre>>
    /\ UNCHANGED <<wsobs, parsevars, pty_dims, latervars>>

\* the change was seen and True is returned at once
wait_for_ui_update_no_settle ==
    /\ pc = "wu_settle"
    /\ AfterWait("True")
    /\ UNCHANGED <<progvars, envvars, op, arg, wait, now, locals, writes, acts,
                   changed_at, wfail, session, pre>>
    /\ UNCHANGED <<wsobs, parsevars, pty_dims, latervars>>

\* await asyncio.sleep(0.2) after the change was seen, then return True
wait_for_ui_update_settle ==
    /\ pc = "wu_settle"
    /\ now' \in SleepEnds(SettleDelay)
    /\ AfterWait("True")
    /\ UNCHANGED <<progvars, envvars, op, arg, wait, locals, writes, acts,
                   changed_at, wfail, session, pre>>
    /\ UNCHANGED <<wsobs, parsevars, pty_dims, latervars>>

(* ----------------------- send_key and send_text ------------------------ *)

\* the guard with the flag forgotten
NotRunning_handle_only == process = 0

\* not self.process or not self._running
NotRunning == process = 0 \/ ~running

\* os.write on the pty master, done by self.process.send: it succeeds while
\* the child lives; once the child has exited it succeeds or raises OSError,
\* as the platform decides
WriteOutcomes(p) == IF p \in alive THEN {"ok"} ELSE {"ok", "OSError"}

\* an except branch that also gives the session up
send_except_gives_up ==
    /\ Finish("False")
    /\ running' = FALSE
    /\ UNCHANGED process

\* except Exception: log and return False
send_except ==
    /\ Finish("False")
    /\ UNCHANGED <<process, running>>

\* the bytes written twice over
WriteBytes_twice(bytes) == writes' = Append(Append(writes, bytes), bytes)

\* self.process.send(...): the bytes are written to the pty
WriteBytes(bytes) == writes' = Append(writes, bytes)

\* the body shared by send_key and send_text: the guard, the write, and the
\* entry into _wait_for_ui_update (start_hash and start_time are taken)
SendSteps(name, a, bytes, w) ==
    /\ Begin(name, a, w)
    /\ IF NotRunning
       THEN /\ Finish("False")
            /\ UNCHANGED <<process, running, writes, wfail, start_hash, start_time>>
       ELSE \E outcome \in WriteOutcomes(process) :
            IF outcome = "ok"
            THEN /\ WriteBytes(bytes)
                 /\ IF w
                    THEN /\ start_hash' = get_screen_hash(screen)
                         /\ start_time' = now
                         /\ pc' = "wu_loop"
                         /\ UNCHANGED result
                    ELSE /\ Finish("True")
                         /\ UNCHANGED <<start_hash, start_time>>
                 /\ UNCHANGED <<process, running, wfail>>
            ELSE /\ wfail' = TRUE
                 /\ send_except
                 /\ UNCHANGED <<writes, start_hash, start_time>>
    /\ UNCHANGED <<screen, envvars, now, last_hash, stable_start, wait_result,
                   acts, changed_at, session>>

\* send_key or send_text called on its own: nothing else changes
Send(name, a, bytes, w) ==
    /\ SendSteps(name, a, bytes, w)
    /\ UNCHANGED <<wsobs, parsevars, pty_dims, latervars>>

\* send_key(key, wait_for_update)
send_key(k, w) == Send("send_key", k, KeyLookup(k), w)

\* send_text(text, wait_for_update)
send_text(t, w) == Send("send_text", t, t, w)

(* -------------------------------- stop --------------------------------- *)

\* the liveness test reduced to the handle
StillAlive_handle_only == process # 0

\* self.process and self.process.isalive()   (first test)
\* self.process.isalive()                    (second and third test)
StillAlive == process # 0 /\ process \in alive

\* an entry of the log of stop(): what was done, when, and whether the
\* child was in fact alive at that moment
Act(a, t) == [a |-> a, t |-> t, alive |-> (process \in alive)]

\* stop() returns
stop_returns ==
    /\ Finish("None")
    /\ session' = "stopped"

\* the flag is left as it was
stop_mark_forgotten == UNCHANGED running

\* self._running = False
stop_mark == running' = FALSE

\* stop(): the flag is cleared and the first liveness test is made
stop ==
    /\ Begin("stop", << >>, FALSE)
    /\ stop_mark
    /\ acts' = IF process = 0 THEN acts ELSE Append(acts, Act("check", now))
    /\ IF StillAlive
       THEN /\ pc' = "stop_quit"
            /\ session' = "stopping"
            /\ UNCHANGED result
       ELSE stop_returns
    /\ UNCHANGED <<process, screen, envvars, now, locals, wait_result, writes,
                   changed_at, wfail>>
    /\ UNCHANGED <<wsobs, parsevars, pty_dims, latervars>>

\* self.process.send('q'); nothing catches what it raises
stop_send_quit ==
    /\ pc = "stop_quit"
    /\ acts' = Append(acts, Act("q", now))
    /\ \E outcome \in WriteOutcomes(process) :
       IF outcome = "ok"
       THEN /\ writes' = Append(writes, <<113>>)
            /\ pc' = "stop_sleep1"
            /\ UNCHANGED <<result, wfail>>
       ELSE /\ wfail' = TRUE
            /\ Finish("raised")
            /\ UNCHANGED writes
    /\ UNCHANGED <<progvars, envvars, op, arg, wait, now, locals, wait_result,
                   changed_at, session, pre>>
    /\ UNCHANGED <<wsobs, parsevars, pty_dims, latervars>>

\* the second test made without the sleep before it
stop_after_quit_no_sleep ==
    /\ pc = "stop_sleep1"
    /\ acts' = Append(acts, Act("check", now))
    /\ IF StillAlive
       THEN /\ pc' = "stop_terminate"
            /\ UNCHANGED <<result, session>>
       ELSE stop_returns
    /\ UNCHANGED <<progvars, envvars, op, arg, wait, now, locals, wait_result,
                   writes, changed_at, wfail, pre>>
    /\ UNCHANGED <<wsobs, parsevars, pty_dims, latervars>>

\* await asyncio.sleep(1), then the second liveness test
stop_after_quit ==
    /\ pc = "stop_sleep1"
    /\ now' \in SleepEnds(StopT1)
    /\ acts' = Append(acts, Act("check", now'))
    /\ IF StillAlive
       THEN /\ pc' = "stop_terminate"
            /\ UNCHANGED <<result, session>>
       ELSE stop_returns
    /\ UNCHANGED <<progvars, envvars, op, arg, wait, locals, wait_result,
                   writes, changed_at, wfail, pre>>
    /\ UNCHANGED <<wsobs, parsevars, pty_dims, latervars>>

\* self.process.terminate(): pexpect signals the child (SIGHUP, then SIGINT)
\* and catches OSError itself; the child exits or ignores the signals
stop_terminate ==
    /\ pc = "stop_terminate"
    /\ acts' = Append(acts, Act("terminate", now))
    /\ alive' \in {alive, alive \ {process}}
    /\ pc' = "stop_sleep2"
    /\ UNCHANGED <<progvars, nspawn, op, arg, wait, now, result, locals,
                   wait_result, writes, changed_at, wfail, session, pre>>
    /\ UNCHANGED <<wsobs, parsevars, pty_dims, latervars>>

\* await asyncio.sleep(1), then the third liveness test
stop_after_terminate ==
    /\ pc = "stop_sleep2"
    /\ now' \in SleepEnds(StopT2)
    /\ acts' = Append(acts, Act("check", now'))
    /\ IF StillAlive
       THEN /\ pc' = "stop_kill"
            /\ UNCHANGED <<result, session>>
       ELSE stop_returns
    /\ UNCHANGED <<progvars, envvars, op, arg, wait, locals, wait_result,
                   writes, changed_at, wfail, pre>>
    /\ UNCHANGED <<wsobs, parsevars, pty_dims, latervars>>

\* self.process.kill(): the call passes no signal, and pexpect's
\* spawn.kill(sig) requires one, so the build decides: the child is killed,
\* or the call raises (TypeError; OSError when the child is already gone);
\* nothing catches what it raises
stop_kill ==
    /\ pc = "stop_kill"
    /\ acts' = Append(acts, Act("kill", now))
    /\ \E outcome \in {"killed", "raised"} :
       IF outcome = "killed"
       THEN /\ alive' = alive \ {process}
            /\ stop_returns
       ELSE /\ Finish("raised")
            /\ UNCHANGED <<alive, session>>
    /\ UNCHANGED <<progvars, nspawn, op, arg, wait, now, locals, wait_result,
                   writes, changed_at, wfail, pre>>
    /\ UNCHANGED <<wsobs, parsevars, pty_dims, latervars>>

(* ------------------------ start_claude_squad --------------------------- *)

\* pexpect.spawn(...) raised: the except branch returns False
start_failed ==
    /\ Begin("start", << >>, FALSE)
    /\ session' = IF session = "never" THEN "failed" ELSE session
    /\ Finish("False")
    /\ UNCHANGED <<progvars, envvars, now, locals, wait_result, writes, acts,
                   changed_at, wfail>>
    /\ UNCHANGED <<wsobs, parsevars, pty_dims, latervars>>

\* the sleep of start_claude_squad, leading into _wait_for_ui_stable
start_sleep_skipped ==
    /\ pc = "start_sleep"
    /\ Finish("True")
    /\ UNCHANGED <<progvars, envvars, op, arg, wait, now, locals, obsvars>>
    /\ UNCHANGED <<wsobs, parsevars, pty_dims, latervars>>

\* await asyncio.sleep(2), then the call of _wait_for_ui_stable()
start_sleep ==
    /\ pc = "start_sleep"
    /\ now' \in SleepEnds(StartSleep)
    /\ EnterStable(now')
    /\ pc' = "ws_loop"
    /\ UNCHANGED <<progvars, envvars, op, arg, wait, result, obsvars>>
    /\ UNCHANGED <<parsevars, pty_dims, latervars>>

\* the dimensions given to the pty the wrong way round
SpawnDims_swapped == <<width, height>>

\* dimensions=(self.height, self.width)
SpawnDims == <<height, width>>

\* the handle that self.process = pexpect.spawn(...) overwrites is looked at
\* by nothing in the code.  If it named a live child, that child is closed
\* by the finalizer of the library when the runtime frees the old handle at
\* once, and lives on when it does not (no reference counting, or a
\* reference held elsewhere): the build decides
Overwritten == { alive, alive \ {process} }

\* pexpect.spawn(...) succeeded: a new child, the handle and the flag are set
start_claude_squad ==
    /\ Begin("start", << >>, FALSE)
    /\ nspawn < MaxSpawns
    /\ nspawn' = nspawn + 1
    /\ pty_dims' = SpawnDims
    /\ \E rest \in Overwritten : alive' = rest \cup {nspawn + 1}
    /\ process' = nspawn + 1
    /\ running' = TRUE
    /\ session' = "active"
    /\ pc' = "start_sleep"
    /\ UNCHANGED <<screen, now, result, locals, wait_result, writes, acts,
                   changed_at, wfail>>
    /\ UNCHANGED <<wsobs, parsevars, latervars>>

(* ------------------------------ return --------------------------------- *)

\* the caller takes the result; the next call starts from a clean slate
Resume ==
    /\ pc = "done"
    /\ pc' = "idle"
    /\ op' = "none"
    /\ arg' = << >>
    /\ wait' = FALSE
    /\ now' = 0
    /\ result' = "pending"
    /\ start_hash' = None
    /\ start_time' = None
    /\ last_hash' = None
    /\ stable_start' = None
    /\ wait_result' = "none"
    /\ writes' = << >>
    /\ acts' = << >>
    /\ changed_at' = None
    /\ wfail' = FALSE
    /\ pre' = NoSnapshot
    /\ ws_hist' = "none"
    /\ ws_prev' = None
    /\ ws_run' = None
    /\ UNCHANGED <<progvars, envvars, session>>

\* the return of a call made on its own
Return ==
    /\ Resume
    /\ UNCHANGED <<parsevars, pty_dims, latervars>>

Next ==
    \/ \E p \in Pids : ProcExit(p)
    \/ \E t \in ScreenTexts : capture_output(t)
    \/ start_failed
    \/ start_claude_squad
    \/ start_sleep
    \/ wait_for_ui_stable
    \/ \E k \in Keys, w \in BOOLEAN : send_key(k, w)
    \/ \E t \in Texts, w \in BOOLEAN : send_text(t, w)
    \/ wait_for_ui_update
    \/ wait_for_ui_update_settle
    \/ stop
    \/ stop_send_quit
    \/ stop_after_quit
    \/ stop_terminate
    \/ stop_after_terminate
    \/ stop_kill
    \/ Return

Spec == Init /\ [][Next]_vars

(* ========================= reading the screen ========================== *)

(* ----------------------- str and list operations ----------------------- *)

\* a list given by its elements, position by position
List(f) == << >> \o f

Min2(a, b) == IF a < b THEN a ELSE b
Max2(a, b) == IF a > b THEN a ELSE b

\* s[:n] for n >= 0
Take(s, n) == SubSeq(s, 1, Min2(n, Len(s)))

\* s[n:] for n >= 0
Drop(s, n) == SubSeq(s, n + 1, Len(s))

\* s[-n:] for n > 0
Last(s, n) == SubSeq(s, Max2(1, Len(s) - n + 1), Len(s))

\* s[a:-b] for a >= 0, b > 0
Inner(s, a, b) == SubSeq(s, a + 1, Len(s) - b)

\* str.isspace() of one character of the grid
IsSpace(c) == c = 32

\* str.rstrip(): everything up to the last character that is not whitespace
RStrip(s) ==
    SubSeq(s, 1, CHOOSE i \in 0..Len(s) :
                    /\ (i = 0 \/ ~IsSpace(s[i]))
                    /\ \A j \in (i + 1)..Len(s) : IsSpace(s[j]))

\* str.lstrip(): everything from the first character that is not whitespace
LStrip(s) ==
    SubSeq(s, CHOOSE i \in 1..(Len(s) + 1) :
                 /\ (i = Len(s) + 1 \/ ~IsSpace(s[i]))
                 /\ \A j \in 1..(i - 1) : IsSpace(s[j]),
           Len(s))

\* str.strip()
Strip(s) == LStrip(RStrip(s))

\* c in s, for a one-character string c
HasChar(s, c) == \E i \in 1..Len(s) : s[i] = c

\* t in s, for a non-empty string t
Contains(s, t) ==
    \E i \in 1..(Len(s) - Len(t) + 1) : SubSeq(s, i, i + Len(t) - 1) = t

\* s.startswith(c), for a one-character string c
StartsWith(s, c) == Len(s) > 0 /\ s[1] = c

\* s.replace(c, ''), for a one-character string c
Remove(s, c) == SelectSeq(s, LAMBDA x : x # c)

\* str.lower() on the characters of the grid
Lower(s) ==
    List([ i \in 1..Len(s) |-> IF s[i] >= 65 /\ s[i] <= 90 THEN s[i] + 32 ELSE s[i] ])

\* s.split(c), for a one-character string c: the pieces between the
\* occurrences of c, empty pieces included
Split(s, c) ==
    LET seps     == { i \in 1..Len(s) : s[i] = c }
        n        == Cardinality(seps)
        pos(k)   == CHOOSE i \in seps : Cardinality({ j \in seps : j < i }) = k - 1
        first(k) == IF k = 1 THEN 1 ELSE pos(k - 1) + 1
        last(k)  == IF k = n + 1 THEN Len(s) ELSE pos(k) - 1
    IN  List([ k \in 1..(n + 1) |-> SubSeq(s, first(k), last(k)) ])

\* '\n'.join(parts)
JoinLines(parts) ==
    LET f[k \in 0..Len(parts)] ==
            IF k = 0 THEN << >>
            ELSE IF k = 1 THEN parts[1]
            ELSE f[k - 1] \o <<10>> \o parts[k]
    IN  f[Len(parts)]

\* \d of the re module on the characters of the grid
IsDigit(c) == c >= 48 /\ c <= 57

\* where the longest run of digits that starts at position i ends
\* (i - 1 when there is no digit at i)
DigitsEnd(s, i) ==
    CHOOSE j \in (i - 1)..Len(s) :
        /\ (j = Len(s) \/ ~IsDigit(s[j + 1]))
        /\ \A k \in i..j : IsDigit(s[k])

\* where the longest run of whitespace that starts at position i ends
SpacesEnd(s, i) ==
    CHOOSE j \in (i - 1)..Len(s) :
        /\ (j = Len(s) \/ ~IsSpace(s[j + 1]))
        /\ \A k \in i..j : IsSpace(s[k])

\* int(digits) raises ValueError: the digits are more than the interpreter
\* converts (sys.int_info.default_max_str_digits, CPython 3.11 and later)
IntFails(d) == Len(d) > MaxStrDigits

\* int(digits)
ToInt(d) ==
    LET v[k \in 0..Len(d)] == IF k = 0 THEN 0 ELSE v[k - 1] * 10 + (d[k] - 48)
    IN  v[Len(d)]

(* ---------------------------- the parsers ------------------------------ *)

\* Optional[...]: None, or a value
Nothing == << >>
Some(x) == <<x>>

\* a dict is modelled by the set of its (key, value) pairs
GitDict(added, removed) == { <<"+", added>>, <<"-", removed>> }

\* self.width // 3
LeftPanelWidth == width \div 3

\* _is_instance_line
is_instance_line(line) ==
    HasChar(line, GlyphDot) \/ HasChar(line, GlyphPause) \/ HasChar(line, GlyphRing)

\* _extract_instance_info: the status
StatusOf(line) ==
    IF HasChar(line, GlyphDot)
    THEN (IF Contains(line, <<82, 117, 110, 110, 105, 110, 103>>)  \* "Running"
          THEN "Running" ELSE "Ready")
    ELSE IF HasChar(line, GlyphPause) THEN "Paused"
    ELSE IF HasChar(line, GlyphRing) THEN "Stopped"
    ELSE "Unknown"

\* _extract_instance_info: the name, every '●', '⏸', '○', '+' and '-'
\* removed in turn, stripped after each, cut to 20 characters
NameOf(line) ==
    LET s0 == Strip(line)
        s1 == Strip(Remove(s0, GlyphDot))
        s2 == Strip(Remove(s1, GlyphPause))
        s3 == Strip(Remove(s2, GlyphRing))
        s4 == Strip(Remove(s3, 43))
        s5 == Strip(Remove(s4, 45))
    IN  Take(s5, 20)

\* where re.search(r'\+(\d+)\s*-(\d+)', s) can match: the positions of a '+'
\* followed by digits, optional whitespace, a '-' and digits
GitMatches(s) ==
    { i \in 1..Len(s) :
        /\ s[i] = 43
        /\ LET e1 == DigitsEnd(s, i + 1)
               e2 == SpacesEnd(s, e1 + 1)
           IN  /\ e1 >= i + 1
               /\ e2 + 1 <= Len(s)
               /\ s[e2 + 1] = 45
               /\ DigitsEnd(s, e2 + 2) >= e2 + 2 }

\* the groups of the leftmost match, read the wrong way round
GitStatsOf_swapped(line) ==
    IF GitMatches(line) = {} THEN {}
    ELSE LET i  == CHOOSE x \in GitMatches(line) : \A y \in GitMatches(line) : x <= y
             e1 == DigitsEnd(line, i + 1)
             e2 == SpacesEnd(line, e1 + 1)
             e3 == DigitsEnd(line, e2 + 2)
         IN  GitDict(ToInt(SubSeq(line, e2 + 2, e3)), ToInt(SubSeq(line, i + 1, e1)))

\* _extract_instance_info: git_stats, from the leftmost match
GitStatsOf(line) ==
    IF GitMatches(line) = {} THEN {}
    ELSE LET i  == CHOOSE x \in GitMatches(line) : \A y \in GitMatches(line) : x <= y
             e1 == DigitsEnd(line, i + 1)
             e2 == SpacesEnd(line, e1 + 1)
             e3 == DigitsEnd(line, e2 + 2)
         IN  GitDict(ToInt(SubSeq(line, i + 1, e1)), ToInt(SubSeq(line, e2 + 2, e3)))

\* where the ')' that closes a '(' at position i is (0 when there is none)
CloseOf(s, i) ==
    LET after == { j \in (i + 1)..Len(s) : s[j] = 41 }
    IN  IF after = {} THEN 0 ELSE CHOOSE j \in after : \A k \in after : j <= k

\* _extract_instance_info: project, re.search(r'\(([^)]+)\)', line)
ProjectOf(line) ==
    LET opens == { i \in 1..Len(line) : line[i] = 40 /\ CloseOf(line, i) >= i + 2 }
    IN  IF opens = {} THEN Nothing
        ELSE LET i == CHOOSE x \in opens : \A y \in opens : x <= y
             IN  Some(SubSeq(line, i + 1, CloseOf(line, i) - 1))

\* _extract_instance_info: one of the two int(...) of the git stats raises
\* (which takes a line longer than the digits int() converts)
GitFails(line) ==
    /\ Len(line) > MaxStrDigits
    /\ GitMatches(line) # {}
    /\ LET i  == CHOOSE x \in GitMatches(line) : \A y \in GitMatches(line) : x <= y
           e1 == DigitsEnd(line, i + 1)
           e2 == SpacesEnd(line, e1 + 1)
           e3 == DigitsEnd(line, e2 + 2)
       IN  IntFails(SubSeq(line, i + 1, e1)) \/ IntFails(SubSeq(line, e2 + 2, e3))

\* _extract_instance_info: the entry, or None when the try block raised
extract_instance_info(line, index) ==
    IF GitFails(line) THEN Nothing
    ELSE Some([ index     |-> index,
                name      |-> NameOf(line),
                status    |-> StatusOf(line),
                project   |-> ProjectOf(line),
                branch    |-> "main",
                git_stats |-> GitStatsOf(line) ])

\* a row whose extraction failed is listed all the same, as an entry with
\* nothing in it
Extracted_listed(instances, instance) ==
    Append(instances,
           IF instance = Nothing
           THEN [ index |-> Len(instances), name |-> << >>, status |-> "Unknown",
                  project |-> Nothing, branch |-> "main", git_stats |-> {} ]
           ELSE instance[1])

\* if instance: instances.append(instance)
Extracted(instances, instance) ==
    IF instance = Nothing THEN instances ELSE Append(instances, instance[1])

\* the index given to the entry made from the i-th scanned row: the row number
NextIndex_row(instances, i) == i

\* the index given to the entry made from the i-th scanned row: len(instances)
NextIndex(instances, i) == Len(instances)

\* the loop of _parse_instance_list over lines[1:-3], started with a list
ParseRows(lines, start) ==
    LET rows == Inner(lines, 1, 3)
        f[k \in 0..Len(rows)] ==
            IF k = 0 THEN start
            ELSE LET instances    == f[k - 1]
                     line         == rows[k]
                     left_portion == Strip(Take(line, LeftPanelWidth))
                 IN  IF Len(line) < 3 THEN instances
                     ELSE IF is_instance_line(left_portion)
                     THEN Extracted(instances,
                                    extract_instance_info(left_portion,
                                                          NextIndex(instances, k - 1)))
                     ELSE instances
    IN  f[Len(rows)]

\* a list that outlives the call: the entries of the call before are kept
parse_instance_list_kept(lines) ==
    ParseRows(lines, IF captures > 0 THEN state.instances ELSE << >>)

\* _parse_instance_list: instances = [] and the loop
parse_instance_list(lines) == ParseRows(lines, << >>)

\* _line_to_instance_index
line_to_instance_index(line_num, lines) ==
    LET n == Min2(line_num, Len(lines))
        f[k \in 0..n] ==
            IF k = 0 THEN [returned |-> FALSE, instance_count |-> 0]
            ELSE LET p == f[k - 1]
                     i == k - 1
                 IN  IF p.returned THEN p
                     ELSE IF i > 0 /\ is_instance_line(Take(lines[i + 1], LeftPanelWidth))
                     THEN (IF i = line_num
                           THEN [p EXCEPT !.returned = TRUE]
                           ELSE [p EXCEPT !.instance_count = @ + 1])
                     ELSE p
    IN  IF f[n].returned THEN f[n].instance_count
        ELSE Max2(0, f[n].instance_count - 1)

\* the rows _detect_selected_instance takes for a selection: the stripped
\* row starts with '>' or the row holds a '█'
MarkedRows(lines) ==
    { i \in 1..Len(lines) :
        StartsWith(Strip(lines[i]), 62) \/ HasChar(lines[i], GlyphBlock) }

\* what _detect_selected_instance returns when no row is marked: nothing
SelectedDefault_none == None

\* what _detect_selected_instance returns when no row is marked
SelectedDefault == 0

\* _detect_selected_instance: the first marked row decides
detect_selected_instance(lines) ==
    IF MarkedRows(lines) = {} THEN SelectedDefault
    ELSE LET i == CHOOSE x \in MarkedRows(lines) : \A y \in MarkedRows(lines) : x <= y
         IN  line_to_instance_index(i - 1, lines)

Preview == <<80, 114, 101, 118, 105, 101, 119>>
Diff    == <<68, 105, 102, 102>>
Console == <<67, 111, 110, 115, 111, 108, 101>>

\* what _detect_current_tab returns after the loop: nothing
TabDefault_none == "None"

\* what _detect_current_tab returns after the loop
TabDefault == "preview"

\* _detect_current_tab: the first of lines[:5] with a '█' and a label decides
detect_current_tab(lines) ==
    LET top  == Take(lines, 5)
        hits == { i \in 1..Len(top) :
                    /\ HasChar(top[i], GlyphBlock)
                    /\ \/ Contains(top[i], Preview)
                       \/ Contains(top[i], Diff)
                       \/ Contains(top[i], Console) }
    IN  IF hits = {} THEN TabDefault
        ELSE LET line == top[CHOOSE x \in hits : \A y \in hits : x <= y]
             IN  IF Contains(line, Preview) THEN "preview"
                 ELSE IF Contains(line, Diff) THEN "diff"
                 ELSE "console"

\* _extract_tab_content
extract_tab_content(lines, current_tab) ==
    LET rows == SelectSeq(Inner(lines, 3, 3), LAMBDA line : Len(line) > LeftPanelWidth)
    IN  JoinLines(List([ k \in 1..Len(rows) |-> RStrip(Drop(rows[k], LeftPanelWidth)) ]))

\* _parse_menu_items: the items of one row
MenuItemsOf(line) ==
    IF HasChar(line, BoxBar) \/ HasChar(line, AsciiBar)
    THEN LET items == Split(line, BoxBar)
             clean == List([ k \in 1..Len(items) |-> Strip(items[k]) ])
         IN  SelectSeq(clean, LAMBDA c : Len(c) > 0 /\ Len(c) < 20)
    ELSE << >>

\* _parse_menu_items
parse_menu_items(lines) ==
    LET rows == Last(lines, 3)
        f[k \in 0..Len(rows)] ==
            IF k = 0 THEN << >> ELSE f[k - 1] \o MenuItemsOf(rows[k])
    IN  f[Len(rows)]

\* _extract_error_message
extract_error_message(lines) ==
    LET rows == Last(lines, 5)
        hits == { i \in 1..Len(rows) :
                    \/ Contains(Lower(rows[i]), <<101, 114, 114, 111, 114>>)      \* "error"
                    \/ Contains(Lower(rows[i]), <<102, 97, 105, 108, 101, 100>>) } \* "failed"
    IN  IF hits = {} THEN Nothing
        ELSE Some(Strip(rows[CHOOSE x \in hits : \A y \in hits : x <= y]))

\* the cells of a row: what was drawn, cut to the width, then blanks
Pad(s, w) == List([ i \in 1..w |-> IF i <= Len(s) THEN s[i] ELSE 32 ])

\* get_screen_content: the rows of the buffer, all their cells joined,
\* right-trimmed
ScreenLines == List([ i \in 1..Len(buffer) |-> RStrip(Pad(buffer[i], width)) ])

\* get_screen_content: the ScreenState it builds
ScreenStateOf(lines) ==
    [ instances         |-> parse_instance_list(lines),
      selected_instance |-> detect_selected_instance(lines),
      current_tab       |-> detect_current_tab(lines),
      tab_content       |-> extract_tab_content(lines, detect_current_tab(lines)),
      menu_items        |-> parse_menu_items(lines),
      error_message     |-> extract_error_message(lines) ]

(* ------------------------ the screens of the check --------------------- *)

\* what the top row of the grid may show: the tab bar
HeaderRows ==
    {
      \* ""
      << >>,
      \* "█Diff"
      <<9608, 68, 105, 102, 102>>,
      \* "█Console"
      <<9608, 67, 111, 110, 115, 111, 108, 101>>,
      \* "Preview █Diff Console"
      <<80, 114, 101, 118, 105, 101, 119, 32, 9608, 68, 105, 102, 102, 32, 67, 111, 110, 115, 111, 108, 101>>
    }

\* what a row of the instance list may show
BodyRows ==
    {
      \* ""
      << >>,
      \* "● my-task (proj-a) +5 -3"
      <<9679, 32, 109, 121, 45, 116, 97, 115, 107, 32, 40, 112, 114, 111, 106, 45, 97, 41, 32, 43, 53, 32, 45, 51>>,
      \* "> ⏸ b +12 -7"
      <<62, 32, 9208, 32, 98, 32, 43, 49, 50, 32, 45, 55>>,
      \* "●a"
      <<9679, 97>>,
      \* "█ ○ c"
      <<9608, 32, 9675, 32, 99>>,
      \* "● d Running"
      <<9679, 32, 100, 32, 82, 117, 110, 110, 105, 110, 103>>
    }

\* what a bottom row may show: the menu or an error
FooterRows ==
    {
      \* ""
      << >>,
      \* "n new-session-long-name-x │ q quit │"
      <<110, 32, 110, 101, 119, 45, 115, 101, 115, 115, 105, 111, 110, 45, 108, 111, 110, 103, 45, 110, 97, 109, 101, 45, 120, 32, 9474, 32, 113, 32, 113, 117, 105, 116, 32, 9474>>,
      \* "a | b"
      <<97, 32, 124, 32, 98>>,
      \* "Error: spawn failed"
      <<69, 114, 114, 111, 114, 58, 32, 115, 112, 97, 119, 110, 32, 102, 97, 105, 108, 101, 100>>
    }

\* the terminal sizes (width, height) of the check: the default size, and
\* a small one
Sizes == { <<DefaultWidth, DefaultHeight>>, <<30, 7>> }

\* what row i of a grid of h rows may show: the tab bar on top, the
\* instance list in the three rows below it, the menu or an error in the
\* bottom row, the menu in the row above it, blank rows between
RowTexts(i, h) ==
    IF i = 1 THEN HeaderRows
    ELSE IF i <= 4 THEN BodyRows
    ELSE IF i = h THEN FooterRows
    ELSE IF i = h - 1 THEN { r \in FooterRows : r = << >> \/ HasChar(r, BoxBar) }
    ELSE { << >> }

\* the grid before anything was drawn
BlankGrid(h) == [ i \in 1..h |-> << >> ]

\* no ScreenState was returned yet
NoState == << >>

(* ------------------------ the reading session -------------------------- *)

\* the child's output rewrites row i of the grid (_capture_output feeds the
\* stream); what was read before is out of date
capture_output_row(i) ==
    /\ \E r \in RowTexts(i, height) :
          /\ buffer[i] # r
          /\ buffer' = [buffer EXCEPT ![i] = r]
    /\ state' = NoState
    /\ prev_state' = NoState
    /\ captures' = 0
    /\ UNCHANGED <<width, height>>
    /\ UNCHANGED <<progvars, envvars, callvars, locals, obsvars, wsobs>>
    /\ UNCHANGED <<pty_dims, latervars>>

\* get_screen_content()
ReadScreen ==
    /\ state' = ScreenStateOf(ScreenLines)
    /\ prev_state' = state
    /\ captures' = Min2(captures + 1, 2)
    /\ UNCHANGED <<width, height, buffer>>

\* get_screen_content() called on its own
get_screen_content ==
    /\ ReadScreen
    /\ UNCHANGED <<progvars, envvars, callvars, locals, obsvars, wsobs>>
    /\ UNCHANGED <<pty_dims, latervars>>

\* an engine built with one of the sizes: a blank grid, nothing read yet
InitParse ==
    /\ SessionInit
    /\ \E size \in Sizes : width = size[1] /\ height = size[2]
    /\ buffer = BlankGrid(height)
    /\ state = NoState
    /\ prev_state = NoState
    /\ captures = 0

NextParse ==
    \/ get_screen_content
    \/ \E i \in 1..height : capture_output_row(i)

SpecParse == InitParse /\ [][NextParse]_vars

(* ============================== claims ================================= *)

Sends == {"send_key", "send_text"}

\* C1: once stop() has ended, the running flag of the session is false,
\* whatever state stop() was called in.
C1_StopLeavesNotRunning == (op = "stop" /\ pc = "done") => ~running

\* stop() called on a running session with a live child has returned
C1_Witness ==
    op = "stop" /\ pc = "done" /\ result = "None" /\ pre.running /\ ~pre.dead

\* C2: stop() never raises: it completes normally in every state, also when
\* the child exits between a liveness test and the next step, or when the
\* write of the quit key or a signal fails.
C2_StopNeverRaises == ~(op = "stop" /\ result = "raised")

\* C3: stop() escalates in a fixed order with a liveness test before each
\* step: the quit key only after a test that found the child alive;
\* terminate only after the quit key was written, T1 has passed and a test
\* found the child alive; kill only after terminate, T2 and a test that found
\* the child alive; after a test that finds the child dead, nothing more.
C3_EscalationOrder ==
    \A i \in 1..Len(acts) :
        /\ (acts[i].a = "check" /\ ~acts[i].alive) => i = Len(acts)
        /\ acts[i].a = "q" =>
              /\ i = 2
              /\ acts[1].a = "check" /\ acts[1].alive
        /\ acts[i].a = "terminate" =>
              /\ i = 4
              /\ acts[2].a = "q" /\ writes = << <<113>> >>
              /\ acts[3].a = "check" /\ acts[3].alive
              /\ acts[3].t >= acts[2].t + StopT1
        /\ acts[i].a = "kill" =>
              /\ i = 6
              /\ acts[4].a = "terminate"
              /\ acts[5].a = "check" /\ acts[5].alive
              /\ acts[5].t >= acts[4].t + StopT2

\* a stop() that went through the whole escalation, up to kill
C3_Witness == Len(acts) = 6 /\ acts[6].a = "kill" /\ acts[4].a = "terminate"

\* C4: stop() called on a session that a previous stop() has stopped (its
\* child is dead) is a no-op success: nothing is written to the pty, no
\* signal is sent, and handle, flag and session state are as before.
C4_StopIdempotent ==
    (op = "stop" /\ pc = "done" /\ pre.session = "stopped" /\ pre.dead) =>
        /\ result = "None"
        /\ writes = << >>
        /\ \A i \in 1..Len(acts) : acts[i].a = "check"
        /\ process = pre.process
        /\ running = pre.running
        /\ session = "stopped"
        /\ now = 0

\* a second stop() on a session that had a child has returned
C4_Witness ==
    op = "stop" /\ pc = "done" /\ pre.session = "stopped" /\ pre.process # 0

\* C5: send_key and send_text called without an active session (never
\* started, start failed, or after stop()) return False without raising,
\* write nothing to the pty and start no wait.
C5_SendWithoutSession ==
    (op \in Sends /\ pre.session # "active") =>
        /\ pc = "done"
        /\ result = "False"
        /\ writes = << >>
        /\ wait_result = "none"
        /\ start_time = None
        /\ now = 0

\* send_key, asked to wait for an update, on a session that was stopped
C5_Witness ==
    /\ op = "send_key" /\ pc = "done" /\ wait
    /\ pre.session = "stopped" /\ pre.process # 0

\* C6: when the write to the pty fails in send_key or send_text, the call
\* returns False as a value, no exception escapes, and the running flag and
\* the process handle are as before the call.
C6_WriteFailureIsResult ==
    (op \in Sends /\ wfail) =>
        /\ pc = "done"
        /\ result = "False"
        /\ wait_result = "none"
        /\ pre.running /\ running = pre.running
        /\ process = pre.process

\* a send_key whose write failed because the child had exited
C6_Witness == op = "send_key" /\ wfail /\ pc = "done" /\ process \notin alive

\* C7: every key of the table maps to a non-empty sequence, and send_key(k)
\* writes exactly that sequence; for a symbol k that is not in the table it
\* writes k itself.
C7_KeyTranslation ==
    /\ \A k \in DOMAIN key_mappings : key_mappings[k] # << >>
    /\ op = "send_key" =>
          IF pre.process # 0 /\ pre.running /\ ~wfail
          THEN writes =
                 << IF arg \in DOMAIN key_mappings THEN key_mappings[arg] ELSE arg >>
          ELSE writes = << >>

\* send_key('left') has written ESC [ D
C7_Witness == op = "send_key" /\ arg = <<108, 101, 102, 116>> /\ writes = << <<27, 91, 68>> >>

\* C8 (as the spec states it): start returns once the child is launched, with
\* no sleep and no stability wait inside it.
C8_StartDoesNotWait ==
    (op = "start" /\ pc = "done" /\ result = "True") =>
        (now = 0 /\ wait_result = "none")

\* C8 (amended): a start that launched the child returns True only after its
\* sleep of 2 s and a completed stability wait, which itself takes at least
\* the stability window.
C8_StartWaits ==
    (op = "start" /\ pc = "done" /\ result = "True") =>
        /\ wait_result \in {"True", "False"}
        /\ now >= StartSleep + StablePeriod

\* a start has returned True although its stability wait timed out
C8_Witness ==
    op = "start" /\ pc = "done" /\ result = "True" /\ wait_result = "False"

\* C9: when a sample of _wait_for_ui_update differs from the hash taken at
\* its start, the call returns True, and not before the settle delay has
\* passed since that sample; it returns True in no other case.
C9_UpdateSuccessAfterSettle ==
    /\ (op \in Sends /\ pc = "done" /\ changed_at # None) =>
          /\ wait_result = "True" /\ result = "True"
          /\ now >= changed_at + SettleDelay
    /\ (op \in Sends /\ wait_result = "True") => changed_at # None
    /\ pc = "wu_settle" => changed_at = now

\* a change seen well before the timeout, and the call returned
C9_Witness ==
    /\ op = "send_key" /\ pc = "done" /\ wait_result = "True"
    /\ changed_at # None /\ changed_at - start_time < UpdateTimeout - SettleDelay

\* the steps of _wait_for_ui_update
C10_WaitStep ==
    /\ pc \in {"wu_loop", "wu_settle"}
    /\ <<pc, now, result>>' # <<pc, now, result>>

\* C10: _wait_for_ui_update returns False exactly when no sample it took
\* differed from the hash taken at its start; it returns it as a value, not
\* before the timeout has passed since the call started, and the wait
\* changes neither the screen nor the session.
C10_UpdateFailure ==
    /\ [] ( (op \in Sends /\ pc = "done" /\ wait_result # "none") =>
              /\ (wait_result = "False") <=> (changed_at = None)
              /\ wait_result = "False" =>
                    /\ result = "False"
                    /\ start_time = 0
                    /\ now >= UpdateTimeout
                    /\ process = pre.process /\ running = pre.running )
    /\ [][ C10_WaitStep => UNCHANGED <<screen, process, running, alive, session>> ]_vars

\* a send_key whose wait timed out while the child was alive all along
C10_Witness ==
    /\ op = "send_key" /\ pc = "done" /\ wait_result = "False"
    /\ process \in alive

\* the stability wait run by this call has returned
StableWaitDone == op = "start" /\ wait_result # "none"

C12_AlwaysChangingFails ==
    /\ ws_hist = "alt" => wait_result # "True"
    /\ (StableWaitDone /\ ws_hist = "alt") =>
          /\ wait_result = "False"
          /\ now - start_time >= StableTimeout
          /\ now - start_time < StableTimeout + SampleInterval + MaxJitter

\* a wait whose every sample differed from the one before has returned False
C12_Witness == StableWaitDone /\ ws_hist = "alt" /\ wait_result = "False"

(* -------------------- claims on reading the screen --------------------- *)

\* the rows _parse_instance_list scans: all but the first and the last three
ScanRows == 2..(height - 3)

\* the text of row i as a reader of the grid sees it
RowText(i) == RStrip(Pad(buffer[i], width))

StatusGlyphs == {GlyphDot, GlyphPause, GlyphRing}

\* row i carries a status glyph in its left panel
GlyphRow(i) ==
    \E j \in 1..Min2(LeftPanelWidth, Len(buffer[i])) : buffer[i][j] \in StatusGlyphs

\* the scanned rows that carry a status glyph in their left panel
GlyphRows == { i \in ScanRows : GlyphRow(i) }

\* those of them whose text is at least 3 characters long
ListedRows == { i \in GlyphRows : Len(RowText(i)) >= 3 }

\* how many rows of a set precede row i
Before(rows, i) == Cardinality({ j \in rows : j < i })

\* the statuses an entry made from row i may have
StatusesOf(i) ==
    IF \E j \in 1..Len(buffer[i]) : buffer[i][j] = GlyphDot THEN {"Running", "Ready"}
    ELSE IF \E j \in 1..Len(buffer[i]) : buffer[i][j] = GlyphPause THEN {"Paused"}
    ELSE {"Stopped"}

\* a step of get_screen_content()
ReadStep == captures' > 0 /\ <<state, prev_state, captures>>' # <<state, prev_state, captures>>

Marked(i) ==
    \/ \E j \in 1..Min2(width, Len(buffer[i])) :
          buffer[i][j] = 62 /\ \A k \in 1..(j - 1) : buffer[i][k] = 32
    \/ \E j \in 1..Min2(width, Len(buffer[i])) : buffer[i][j] = GlyphBlock

\* C15 as stated: when the only marked row of the grid is the row of the
\* k-th listed instance (k counted from 0, every glyph row being listed),
\* selected_instance is k.
C15_SelectedIsMarkedInstance ==
    (captures > 0 /\ GlyphRows = ListedRows) =>
        \A i \in ListedRows :
            (Marked(i) /\ \A j \in 1..height : j # i => ~Marked(j))
                => state.selected_instance = Before(ListedRows, i)

\* "● my-task (proj-a) +5 -3"
ScenarioRow == <<9679, 32, 109, 121, 45, 116, 97, 115, 107, 32, 40, 112, 114, 111, 106, 45, 97, 41, 32, 43, 53, 32, 45, 51>>

\* C16 as stated: on the default grid, blank but for the scenario row at
\* scan position 0, the only entry is index 0, name "my-task", status
\* Running or Ready, project "proj-a", branch "main", git stats +5 -3.
C16_ScenarioEntry ==
    ( /\ captures > 0
      /\ width = DefaultWidth /\ height = DefaultHeight
      /\ buffer = [BlankGrid(height) EXCEPT ![2] = ScenarioRow] )
    => /\ Len(state.instances) = 1
       /\ \E st \in {"Running", "Ready"} :
             state.instances[1] =
                 [ index     |-> 0,
                   name      |-> <<109, 121, 45, 116, 97, 115, 107>>,
                   status    |-> st,
                   project   |-> Some(<<112, 114, 111, 106, 45, 97>>),
                   branch    |-> "main",
                   git_stats |-> GitDict(5, 3) ]

\* the text of row i that _extract_instance_info is given
LeftText(i) == Strip(Take(Pad(buffer[i], width), LeftPanelWidth))

\* the entry made from the listed row i
EntryOf(i) == state.instances[Before(ListedRows, i) + 1]

\* s holds a '+', digits, optional blanks, a '-' and digits, in a row
HasGitPattern(s) ==
    \E a \in 1..Len(s) : \E c \in (a + 2)..(Len(s) - 1) :
        /\ s[a] = 43 /\ s[c] = 45
        /\ IsDigit(s[a + 1]) /\ IsDigit(s[c + 1])
        /\ \A k \in (a + 1)..(c - 1) : IsDigit(s[k]) \/ IsSpace(s[k])
        /\ \A k \in (a + 1)..(c - 2) : IsSpace(s[k]) => IsSpace(s[k + 1])

\* s holds "+12 -7" as its first '+' token, no digit following it
HasPlus12Minus7(s) ==
    \E p \in 1..(Len(s) - 5) :
        /\ SubSeq(s, p, p + 5) = <<43, 49, 50, 32, 45, 55>>
        /\ (p + 6 > Len(s) \/ ~IsDigit(s[p + 6]))
        /\ \A k \in 1..(p - 1) : s[k] # 43

\* C17: an instance row whose text holds "+12 -7" gives the git stats
\* added 12, removed 7; an instance row without a +N -M pattern gives the
\* empty mapping.
C17_GitStats ==
    captures > 0 =>
        \A i \in ListedRows :
            /\ HasPlus12Minus7(LeftText(i)) => EntryOf(i).git_stats = GitDict(12, 7)
            /\ ~HasGitPattern(LeftText(i)) => EntryOf(i).git_stats = {}

\* a screen was read that lists a row with "+12 -7" and a row without stats
C17_Witness ==
    /\ captures > 0
    /\ \E i \in ListedRows :
          HasPlus12Minus7(LeftText(i)) /\ EntryOf(i).git_stats = GitDict(12, 7)
    /\ \E i \in ListedRows :
          ~HasGitPattern(LeftText(i)) /\ EntryOf(i).git_stats = {}

\* C18: a grid without a selection marker on any row gives selected_instance 0.
C18_NoMarkerSelectsFirst ==
    (captures > 0 /\ \A i \in 1..height : ~Marked(i)) => state.selected_instance = 0

\* a screen was read that lists two instances and marks none
C18_Witness ==
    /\ captures > 0
    /\ \A i \in 1..height : ~Marked(i)
    /\ Len(state.instances) = 2

\* row i holds the block together with one of the three tab labels
TabRow(i) ==
    /\ HasChar(RowText(i), GlyphBlock)
    /\ \/ Contains(RowText(i), Preview)
       \/ Contains(RowText(i), Diff)
       \/ Contains(RowText(i), Console)

\* C19: current_tab is one of preview, diff, console, and it is preview
\* when none of the first 5 rows holds the block together with a tab label.
C19_CurrentTab ==
    captures > 0 =>
        /\ state.current_tab \in {"preview", "diff", "console"}
        /\ (\A i \in 1..Min2(5, height) : ~TabRow(i)) => state.current_tab = "preview"

\* a screen was read with a block in the first 5 rows but no tab label
\* beside it
C19_Witness ==
    /\ captures > 0
    /\ \A i \in 1..Min2(5, height) : ~TabRow(i)
    /\ \E i \in 1..Min2(5, height) : HasChar(RowText(i), GlyphBlock)
    /\ state.current_tab = "preview"

\* C20 as stated: the rows are split on the ASCII bar as well, so a grid
\* whose only menu row is "a | b" gives the two items "a" and "b".
C20_SplitOnEitherBar ==
    ( /\ captures > 0
      /\ buffer[height] = <<97, 32, 124, 32, 98>>
      /\ buffer[height - 1] = << >> )
    => state.menu_items = << <<97>>, <<98>> >>

(* ================= stop() called while a wait is pending =============== *)

\* the awaits of the two wait loops: where a call is while its wait is pending
WaitPcs == {"ws_loop", "wu_loop", "wu_settle"}

\* the sleep of the second task is over; once the waiting call has returned
\* the clock of the model stands still, and the sleep ends in any case
StopAwake == now >= swake \/ pc \notin WaitPcs

\* the second task's stop() returns
cstop_returns ==
    /\ spc' = "done"
    /\ sdone_at' = IF pc \in WaitPcs THEN now ELSE None
    /\ UNCHANGED swake

\* stop() is called by a second task while a wait of the first is pending:
\* the flag is cleared, the child is tested and sent 'q' (it is alive, so
\* the write succeeds), and the task sleeps 1 s
cstop ==
    /\ spc = "idle"
    /\ pc \in WaitPcs
    /\ stop_mark
    /\ IF StillAlive
       THEN /\ spc' = "after_quit"
            /\ swake' \in SleepEnds(StopT1)
            /\ UNCHANGED sdone_at
       ELSE cstop_returns
    /\ UNCHANGED <<process, screen, envvars, callvars, locals, obsvars, wsobs,
                   parsevars,
                   pty_dims, conc_rest>>

\* stop() is called by the second task between two calls of the first, or
\* while the first sleeps in start_claude_squad
cstop_between ==
    /\ spc = "idle"
    /\ pc \in {"idle", "start_sleep"}
    /\ stop_mark
    /\ IF StillAlive
       THEN /\ spc' = "after_quit"
            /\ swake' \in SleepEnds(StopT1)
            /\ UNCHANGED sdone_at
       ELSE cstop_returns
    /\ UNCHANGED <<process, screen, envvars, callvars, locals, obsvars, wsobs,
                   parsevars,
                   pty_dims, conc_rest>>

\* after the first sleep: the second test, terminate() and the second sleep
cstop_after_quit ==
    /\ spc = "after_quit"
    /\ StopAwake
    /\ IF StillAlive
       THEN /\ alive' \in {alive, alive \ {process}}
            /\ spc' = "after_terminate"
            /\ swake' \in { Max2(now, swake) + StopT2 + j : j \in 0..MaxJitter }
            /\ UNCHANGED sdone_at
       ELSE /\ cstop_returns
            /\ UNCHANGED alive
    /\ UNCHANGED <<progvars, nspawn, callvars, locals, obsvars, wsobs, parsevars,
                   pty_dims, conc_rest>>

\* after the second sleep: the third test and kill(), which kills the child
\* or raises
cstop_after_terminate ==
    /\ spc = "after_terminate"
    /\ StopAwake
    /\ IF StillAlive
       THEN \E outcome \in {"killed", "raised"} :
               IF outcome = "killed"
               THEN /\ alive' = alive \ {process}
                    /\ cstop_returns
               ELSE /\ spc' = "raised"
                    /\ UNCHANGED <<alive, swake, sdone_at>>
       ELSE /\ cstop_returns
            /\ UNCHANGED alive
    /\ UNCHANGED <<progvars, nspawn, callvars, locals, obsvars, wsobs, parsevars,
                   pty_dims, conc_rest>>

\* the key of the check: 'n'
ConcKey == <<110>>

\* one session: it is started, keys are sent with a wait for the update, and
\* during one of these calls the second task calls stop(); the calls of the
\* first task up to that one, and the steps of that stop()
NextConc ==
    \/ \E p \in Pids : ProcExit(p)
    \/ \E t \in ScreenTexts : capture_output(t)
    \/ nspawn = 0 /\ start_claude_squad
    \/ start_sleep
    \/ wait_for_ui_stable
    \/ spc = "idle" /\ send_key(ConcKey, TRUE)
    \/ wait_for_ui_update
    \/ wait_for_ui_update_settle
    \/ Return
    \/ cstop
    \/ cstop_after_quit
    \/ cstop_after_terminate

SpecConc == Init /\ [][NextConc]_vars

\* C21 as stated: a wait that is pending when stop() is called is preempted
\* by it, so no wait runs on to its own timeout once the stop() has returned
\* and a further sample period has passed.
C21_StopPreemptsWait ==
    ~ ( /\ sdone_at # None
        /\ pc = "done" /\ wait_result = "False"
        /\ now - sdone_at > SampleInterval + MaxJitter )

(* ==================== the size of the terminal ========================= *)

\* the caller is done with the ScreenState it was given
forget_read ==
    /\ captures > 0
    /\ state' = NoState
    /\ prev_state' = NoState
    /\ captures' = 0
    /\ UNCHANGED <<width, height, buffer>>
    /\ UNCHANGED <<progvars, envvars, callvars, locals, obsvars, wsobs>>
    /\ UNCHANGED <<pty_dims, latervars>>

\* the calls of one caller, get_screen_content() among them: it is called
\* between two other calls and its result is used before the next one
NextDims ==
    \/ captures = 0 /\ Next
    \/ captures = 0 /\ pc = "idle" /\ get_screen_content
    \/ forget_read

SpecDims == Init /\ [][NextDims]_vars

\* C22: width and height stay what the constructor was given, whatever is
\* called, and every pty is spawned with exactly these dimensions (rows,
\* columns).
C22_DimensionsFixed ==
    /\ width = DefaultWidth
    /\ height = DefaultHeight
    /\ nspawn > 0 => pty_dims = <<height, width>>

\* a session was started, stopped, read and started again with a new pty
C22_Witness ==
    /\ nspawn = 2
    /\ session = "active"
    /\ captures = 1
    /\ pty_dims = <<DefaultHeight, DefaultWidth>>

(* ------------------------- the tools of the server --------------------- *)
(* handle_call_tool: a tool reads the screen where it needs to, passes its *)
(* keys to send_key one after the other, awaiting each call, and returns   *)
(* a text.                                                                 *)

\* the key names the tools pass to send_key: 'D', 'enter', 'tab', 'down', 'up'
KeyD     == <<68>>
KeyEnter == <<101, 110, 116, 101, 114>>
KeyTab   == <<116, 97, 98>>
KeyDown  == <<100, 111, 119, 110>>
KeyUp    == <<117, 112>>

\* the text kill_instance returns when it was not confirmed
ConfirmRequired == "Instance deletion requires confirmation. Set 'confirm': true"

\* tabs = ["preview", "diff", "console"]
tabs == <<"preview", "diff", "console">>

\* tabs.index(x), counted from 0
TabIndex(x) == (CHOOSE i \in 1..Len(tabs) : tabs[i] = x) - 1

\* for _ in range(n): the key k, n times (none when n <= 0)
Repeat(k, n) == [ i \in 1..n |-> k ]

\* the indices the caller may ask for
Indices == 0..2

\* a screen of the tools: the tab bar in the top row, a list of two
\* instances ("● d Running") in the rows below it, and a fourth row
ToolScreen(header, fourth) ==
    [ BlankGrid(height) EXCEPT
        ![1] = header,
        ![2] = <<9679, 32, 100, 32, 82, 117, 110, 110, 105, 110, 103>>,
        ![3] = <<9679, 32, 100, 32, 82, 117, 110, 110, 105, 110, 103>>,
        ![4] = fourth ]

\* the screens the child draws while the tools are used: the tab bar is
\* "", "█Diff" or "█Console", the fourth row "" or "> ⏸ b +12 -7"
ToolScreens ==
    { ToolScreen(header, fourth) :
        header \in { << >>,
                     <<9608, 68, 105, 102, 102>>,
                     <<9608, 67, 111, 110, 115, 111, 108, 101>> },
        fourth \in { << >>,
                     <<62, 32, 9208, 32, 98, 32, 43, 49, 50, 32, 45, 55>> } }

\* _capture_output(data): the output of the child repaints the whole screen
capture_output_screen(g) ==
    /\ process # 0
    /\ buffer # g
    /\ buffer' = g
    /\ state' = NoState
    /\ prev_state' = NoState
    /\ captures' = 0
    /\ UNCHANGED <<width, height>>
    /\ UNCHANGED <<progvars, envvars, callvars, locals, obsvars, wsobs>>
    /\ UNCHANGED <<pty_dims, latervars>>

\* a tool is entered: no call of the engine is pending, none of another tool
ToolBegin(name, a) ==
    /\ tool = "none"
    /\ pc = "idle"
    /\ tool' = name
    /\ targ' = a
    /\ UNCHANGED <<tsent, twrites>>

\* a confirmation is never asked for
NotConfirmed_never(confirm) == FALSE

\* confirm = arguments.get("confirm", False); if not confirm
NotConfirmed(confirm) == ~confirm

\* kill_instance: without confirm it returns its text at once; with it, 'D',
\* a pause of 0.5 s and 'enter' lie ahead
kill_instance(confirm) ==
    /\ ToolBegin("kill_instance", confirm)
    /\ IF NotConfirmed(confirm)
       THEN /\ tpc' = "replied"
            /\ treply' = <<ConfirmRequired>>
            /\ tleft' = << >>
       ELSE /\ tpc' = "keys"
            /\ tleft' = <<KeyD, KeyEnter>>
            /\ UNCHANGED treply
    /\ UNCHANGED tread
    /\ UNCHANGED <<progvars, envvars, callvars, locals, obsvars, wsobs,
                   parsevars, pty_dims, tool_rest>>

\* await asyncio.sleep(0.5) between the two keys of kill_instance
kill_instance_sleep ==
    /\ tpc = "sleep"
    /\ tpc' = "keys"
    /\ UNCHANGED <<tool, targ, tread, tleft, tsent, twrites, treply>>
    /\ UNCHANGED <<progvars, envvars, callvars, locals, obsvars, wsobs,
                   parsevars, pty_dims, tool_rest>>

\* the presses counted the other way round
TabPresses_back(target, current) == (TabIndex(current) - TabIndex(target)) % Len(tabs)

\* tab_presses = (target_tab_index - current_tab_index) % len(tabs)
TabPresses(target, current) == (TabIndex(target) - TabIndex(current)) % Len(tabs)

\* what a tool keeps of the ScreenState it read
ReadOf(st) == [current_tab |-> st.current_tab, selected_instance |-> st.selected_instance]

\* switch_tab: the screen is read (get_screen_content()), the presses are counted, and that many
\* 'tab' keys lie ahead
switch_tab(target) ==
    /\ ToolBegin("switch_tab", target)
    /\ LET current_state == ScreenStateOf(ScreenLines)
       IN  /\ tread' = ReadOf(current_state)
           /\ tleft' = Repeat(KeyTab, TabPresses(target, current_state.current_tab))
    /\ tpc' = "keys"
    /\ UNCHANGED treply
    /\ UNCHANGED <<progvars, envvars, callvars, locals, obsvars, wsobs,
                   parsevars, pty_dims, tool_rest>>

\* the arrows with 'down' in both branches
Arrows_down_only(target_index, current_index) ==
    IF target_index > current_index
    THEN Repeat(KeyDown, target_index - current_index)
    ELSE IF target_index < current_index
    THEN Repeat(KeyDown, current_index - target_index)
    ELSE << >>

\* navigate_to_instance: the keys of its two loops
Arrows(target_index, current_index) ==
    IF target_index > current_index
    THEN Repeat(KeyDown, target_index - current_index)
    ELSE IF target_index < current_index
    THEN Repeat(KeyUp, current_index - target_index)
    ELSE << >>

\* navigate_to_instance: the screen is read and the arrows lie ahead
navigate_to_instance(target_index) ==
    /\ ToolBegin("navigate_to_instance", target_index)
    /\ LET current_state == ScreenStateOf(ScreenLines)
       IN  /\ tread' = ReadOf(current_state)
           /\ tleft' = Arrows(target_index, current_state.selected_instance)
    /\ tpc' = "keys"
    /\ UNCHANGED treply
    /\ UNCHANGED <<progvars, envvars, callvars, locals, obsvars, wsobs,
                   parsevars, pty_dims, tool_rest>>

\* await self.automator.send_key(key): the next key of the tool is passed to
\* send_key, which waits for the screen to change (wait_for_update is left
\* at its default)
tool_send_key ==
    /\ tpc = "keys"
    /\ tleft # << >>
    /\ SendSteps("send_key", Head(tleft), KeyLookup(Head(tleft)), TRUE)
    /\ tleft' = Tail(tleft)
    /\ tsent' = Append(tsent, Head(tleft))
    /\ UNCHANGED <<tool, tpc, targ, tread, twrites, treply>>
    /\ UNCHANGED <<wsobs, parsevars, pty_dims, tool_rest>>

\* send_key has returned and the tool goes on; its result is not looked at
tool_resume ==
    /\ tool # "none"
    /\ Resume
    /\ twrites' = twrites \o writes
    /\ tpc' = IF tool = "kill_instance" /\ tleft # << >> THEN "sleep" ELSE tpc
    /\ UNCHANGED <<tool, targ, tread, tleft, tsent, treply>>
    /\ UNCHANGED <<parsevars, pty_dims, tool_rest>>

\* the text a tool returns after its keys
ReplyOf(name, a) ==
    IF name = "kill_instance" THEN <<"Instance deleted">>
    ELSE IF name = "switch_tab" THEN <<"Switched to ", a, " tab">>
    ELSE IF name = "checkout_instance" THEN <<"Instance checked out (paused)">>
    ELSE IF name = "resume_instance" THEN <<"Instance resumed">>
    ELSE IF name = "push_changes" THEN <<"Changes pushed to git">>
    ELSE IF name = "send_key" THEN <<"Sent key: ", a>>
    ELSE IF name = "read_resource" THEN <<ScreenStateOf(ScreenLines).tab_content>>
    ELSE <<"Navigated to instance ", a>>

\* the keys are sent: return [types.TextContent(...)]
tool_reply ==
    /\ tpc = "keys"
    /\ tleft = << >>
    /\ pc = "idle"
    /\ tpc' = "replied"
    /\ treply' = ReplyOf(tool, targ)
    /\ UNCHANGED <<tool, targ, tread, tleft, tsent, twrites>>
    /\ UNCHANGED <<progvars, envvars, callvars, locals, obsvars, wsobs,
                   parsevars, pty_dims, tool_rest>>

\* the client has the text; the next tool call starts from a clean slate
tool_return ==
    /\ tpc = "replied"
    /\ tool' = "none"
    /\ tpc' = "idle"
    /\ targ' = << >>
    /\ tread' = << >>
    /\ tleft' = << >>
    /\ tsent' = << >>
    /\ twrites' = << >>
    /\ treply' = << >>
    /\ UNCHANGED <<progvars, envvars, callvars, locals, obsvars, wsobs,
                   parsevars, pty_dims, tool_rest>>

\* ClaudeSquadMCPServer(): its engine is ClaudeSquadAutomator(), of the
\* default size, with a blank grid and no session yet
InitTools ==
    /\ SessionInit
    /\ width = DefaultWidth
    /\ height = DefaultHeight
    /\ buffer = BlankGrid(height)
    /\ state = NoState
    /\ prev_state = NoState
    /\ captures = 0

\* the tools over one session: it is started at most once, the child redraws
\* the screen and may exit at any time
NextTools ==
    \/ \E p \in Pids : ProcExit(p)
    \/ \E t \in ScreenTexts : capture_output(t)
    \/ \E g \in ToolScreens : capture_output_screen(g)
    \/ tool = "none" /\ nspawn = 0 /\ start_claude_squad
    \/ start_sleep
    \/ wait_for_ui_stable
    \/ tool = "none" /\ Return
    \/ \E confirm \in BOOLEAN : kill_instance(confirm)
    \/ \E t \in {"preview", "diff", "console"} : switch_tab(t)
    \/ \E i \in Indices : navigate_to_instance(i)
    \/ kill_instance_sleep
    \/ tool_send_key
    \/ wait_for_ui_update
    \/ wait_for_ui_update_settle
    \/ tool_resume
    \/ tool_reply
    \/ tool_return

SpecTools == InitTools /\ [][NextTools]_vars

(* --------------------------- the orchestrator -------------------------- *)
(* oxigraph_service.py: tasks are kept as triples in an RDF store, and the *)
(* tasks ready to run are found by a SPARQL query.                         *)

\* the ids tasks are created with
TaskIds == {1, 2}

\* the ids a task may be said to depend on: 3 is never created, and has no
\* status
DepIds == {1, 2, 3}

\* the status strings of the service
Statuses == {"pending", "running", "completed"}

\* the priorities tasks are created with
Priorities == {1, 2}

\* the limits get_ready_tasks is called with
Limits == {1, 2}

\* the triples about subject t with predicate p
Objects(t, p) == { x[3] : x \in { y \in store : y[1] = t /\ y[2] = p } }

\* create_task: the triples of the task are added to the store; nothing is
\* removed, whether or not the id is new
create_task(id, status, priority, dependencies) ==
    /\ store' = store \cup
                  { <<id, "rdf:type", "cs:Task">>,
                    <<id, "cs:hasDescription", "d">>,
                    <<id, "cs:hasStatus", status>>,
                    <<id, "cs:hasPriority", priority>> }
                  \cup { <<id, "cs:dependsOn", dep_id>> : dep_id \in dependencies }
    /\ store' # store
    /\ ready' = << >>
    /\ rlimit' = 0
    /\ UNCHANGED <<progvars, envvars, callvars, locals, obsvars, wsobs,
                   parsevars, pty_dims, task_rest>>

\* update_task_status: the old status triples of the task are removed and
\* the new one is added
update_task_status(task_id, status) ==
    /\ store' = { x \in store : ~(x[1] = task_id /\ x[2] = "cs:hasStatus") }
                  \cup { <<task_id, "cs:hasStatus", status>> }
    /\ store' # store
    /\ ready' = << >>
    /\ rlimit' = 0
    /\ UNCHANGED <<progvars, envvars, callvars, locals, obsvars, wsobs,
                   parsevars, pty_dims, task_rest>>

\* the filter left out: every pending task passes
NoIncompleteDep_unfiltered(t) == TRUE

\* FILTER NOT EXISTS { ?task cs:dependsOn ?dep . ?dep cs:hasStatus ?depStatus .
\*                     FILTER(?depStatus != "completed") }
NoIncompleteDep(t) ==
    ~ \E dep \in Objects(t, "cs:dependsOn") :
         \E depStatus \in Objects(dep, "cs:hasStatus") : depStatus # "completed"

\* the solutions of the WHERE clause, as (task, description, priority)
Solutions ==
    { sol \in { <<x[1], d, p>> : x \in store,
                                 d \in {"d"}, p \in Priorities } :
        /\ <<sol[1], "rdf:type", "cs:Task">> \in store
        /\ <<sol[1], "cs:hasStatus", "pending">> \in store
        /\ <<sol[1], "cs:hasDescription", sol[2]>> \in store
        /\ <<sol[1], "cs:hasPriority", sol[3]>> \in store
        /\ NoIncompleteDep(sol[1]) }

\* ORDER BY DESC(?priority): the orders the store may give the solutions in
\* (the order of solutions of equal priority is the store's choice)
Ordered(sols) ==
    { q \in [1..Cardinality(sols) -> sols] :
        /\ \A i, j \in DOMAIN q : i # j => q[i] # q[j]
        /\ \A i, j \in DOMAIN q : i < j => q[i][3] >= q[j][3] }

\* get_ready_tasks(limit): the first `limit` solutions, each turned into its
\* entry (of which the id is kept here)
get_ready_tasks(limit) ==
    /\ rlimit = 0
    /\ \E q \in Ordered(Solutions) :
          ready' = [ i \in 1..Min2(limit, Len(q)) |-> q[i][1] ]
    /\ rlimit' = limit
    /\ UNCHANGED store
    /\ UNCHANGED <<progvars, envvars, callvars, locals, obsvars, wsobs,
                   parsevars, pty_dims, task_rest>>

\* the caller has the list
forget_ready ==
    /\ rlimit # 0
    /\ ready' = << >>
    /\ rlimit' = 0
    /\ UNCHANGED store
    /\ UNCHANGED <<progvars, envvars, callvars, locals, obsvars, wsobs,
                   parsevars, pty_dims, task_rest>>

NextTasks ==
    \/ \E id \in TaskIds, status \in Statuses, priority \in Priorities :
          \E dependencies \in SUBSET (DepIds \ {id}) :
             create_task(id, status, priority, dependencies)
    \/ \E task_id \in TaskIds, status \in Statuses :
          update_task_status(task_id, status)
    \/ \E limit \in Limits : get_ready_tasks(limit)
    \/ forget_ready

SpecTasks == Init /\ [][NextTasks]_vars

(* --------------------- claims on the orchestrator ---------------------- *)

\* t was created: it has the type cs:Task
IsTask(t) == <<t, "rdf:type", "cs:Task">> \in store

\* the status strings t has
StatusSet(t) == Objects(t, "cs:hasStatus")

\* the ids t depends on
DepsOf(t) == { d \in DepIds : <<t, "cs:dependsOn", d>> \in store }

\* the ids in the list returned
Returned == { ready[i] : i \in 1..Len(ready) }

\* C24: the list get_ready_tasks(limit) returns holds only tasks with the
\* status "pending", none of which depends on a task that has a status
\* other than "completed", and never more than `limit` entries; a pending
\* task with no dependency, or whose dependencies all have the status
\* "completed" and no other, is in the list unless the list is full.
C24_ReadyTasks ==
    rlimit # 0 =>
        /\ \A t \in Returned : IsTask(t) /\ "pending" \in StatusSet(t)
        /\ \A t \in Returned : \A d \in DepsOf(t) :
              \A st \in StatusSet(d) : st = "completed"
        /\ Len(ready) <= rlimit
        /\ \A t \in TaskIds :
              ( /\ IsTask(t)
                /\ "pending" \in StatusSet(t)
                /\ \A d \in DepsOf(t) : StatusSet(d) = {"completed"} )
              => (t \in Returned \/ Len(ready) = rlimit)

\* the scenario of test_ready_tasks_query: task 1 is pending with no
\* dependency, task 2 is pending and depends on it; with room for both, the
\* list holds task 1 alone
C24_Witness ==
    /\ rlimit = 2
    /\ ready = <<1>>
    /\ StatusSet(1) = {"pending"} /\ DepsOf(1) = {}
    /\ IsTask(2) /\ StatusSet(2) = {"pending"} /\ DepsOf(2) = {1}

(* ------------------------ claims on the tools -------------------------- *)

\* the reply of the tool being handled is in
Replied(name) == tool = name /\ tpc = "replied"

\* C23: kill_instance without confirm=true passes no key to send_key and
\* writes nothing to the session, and its reply is the text that asks for
\* the confirmation; whenever kill_instance has passed a key or a write was
\* made during it, confirm was true, and the keys passed are 'D', then
\* 'enter', the bytes written among "D" and "\r".
C23_KillNeedsConfirm ==
    tool = "kill_instance" =>
        /\ targ = FALSE =>
              /\ tsent = << >> /\ twrites = << >> /\ writes = << >>
              /\ tpc = "replied" /\ treply = <<ConfirmRequired>>
        /\ (tsent # << >> \/ twrites # << >> \/ writes # << >>) =>
              /\ targ = TRUE
              /\ tsent \in { <<KeyD>>, <<KeyD, KeyEnter>> }
              /\ \A i \in 1..Len(twrites \o writes) :
                    (twrites \o writes)[i] \in { <<68>>, <<13>> }
        /\ Replied("kill_instance") /\ targ = TRUE =>
              /\ tsent = <<KeyD, KeyEnter>>
              /\ treply = <<"Instance deleted">>

\* an unconfirmed kill_instance has replied on a live session
C23_Witness ==
    /\ Replied("kill_instance")
    /\ targ = FALSE
    /\ process \in alive /\ running

\* position of a tab in the order preview, diff, console
TabOrder(t) == IF t = "preview" THEN 0 ELSE IF t = "diff" THEN 1 ELSE 2

\* every element of the sequence q is x
AllAre(q, x) == \A i \in 1..Len(q) : q[i] = x

\* the session was live during the whole tool call: it is live now
LiveSession == process # 0 /\ running /\ process \in alive

\* C29: when switch_tab replies it has passed to send_key exactly
\* (target - current) mod 3 keys, all of them 'tab', where current is the
\* tab it read from the screen at its start and the order is preview, diff,
\* console: none when the target is the current tab, never more than two.
\* On a session that stayed live each of them was written as "\t".
C29_TabPresses ==
    /\ tool = "switch_tab" =>
          /\ AllAre(tsent, KeyTab)
          /\ AllAre(twrites \o writes, <<9>>)
          /\ Len(tsent) + Len(tleft) = (TabOrder(targ) - TabOrder(tread.current_tab)) % 3
    /\ Replied("switch_tab") =>
          /\ Len(tsent) = (TabOrder(targ) - TabOrder(tread.current_tab)) % 3
          /\ Len(tsent) <= 2
          /\ targ = tread.current_tab => tsent = << >>
          /\ LiveSession => Len(twrites) = Len(tsent)

\* from the console tab to the diff tab: two presses, both written
C29_Witness ==
    /\ Replied("switch_tab")
    /\ tread.current_tab = "console" /\ targ = "diff"
    /\ twrites = << <<9>>, <<9>> >>

\* C30: when navigate_to_instance replies it has passed to send_key exactly
\* |target - selected| keys, where selected is the selected_instance it read
\* from the screen at its start: all 'down' when the target is greater, all
\* 'up' when it is smaller, none when they are equal.  On a session that
\* stayed live each of them was written as its escape sequence.
C30_ArrowKeys ==
    Replied("navigate_to_instance") =>
        LET selected == tread.selected_instance
        IN  /\ targ > selected =>
                  /\ Len(tsent) = targ - selected
                  /\ AllAre(tsent, KeyDown)
                  /\ AllAre(twrites, <<27, 91, 66>>)
            /\ targ < selected =>
                  /\ Len(tsent) = selected - targ
                  /\ AllAre(tsent, KeyUp)
                  /\ AllAre(twrites, <<27, 91, 65>>)
            /\ targ = selected => tsent = << >> /\ twrites = << >>
            /\ LiveSession => Len(twrites) = Len(tsent)

\* from instance 1 up to instance 0: one 'up', written
C30_Witness ==
    /\ Replied("navigate_to_instance")
    /\ tread.selected_instance = 1 /\ targ = 0
    /\ twrites = << <<27, 91, 65>> >>

(* ------------------------ claims on the waits -------------------------- *)

\* C25: _wait_for_ui_stable returns True only when every sample taken during
\* the stability window before the return was the same: the last sample that
\* differed from the one before it lies at least the window back.  A
\* differing sample resets the tracking: the time the window is counted
\* from is never older than the last differing sample.
C25_StableMeansUnchanged ==
    /\ (pc = "ws_loop" /\ stable_start # None) =>
          (ws_run # None /\ stable_start > ws_run)
    /\ (StableWaitDone /\ wait_result = "True") =>
          /\ ws_run # None
          /\ stable_start # None /\ stable_start > ws_run
          /\ now - stable_start >= StablePeriod
          /\ now - ws_run >= StablePeriod

\* the wait saw the screen change, then saw it unchanged for the window, and
\* returned True
C25_Witness ==
    /\ StableWaitDone /\ wait_result = "True"
    /\ ws_hist = "mixed"
    /\ ws_run > start_time

\* one session and one key, sent with a wait, over and over: the two wait
\* loops with the screen changing and the child exiting at any time
NextWait ==
    \/ \E p \in Pids : ProcExit(p)
    \/ \E t \in ScreenTexts : capture_output(t)
    \/ nspawn = 0 /\ start_claude_squad
    \/ start_sleep
    \/ wait_for_ui_stable
    \/ send_key(ConcKey, TRUE)
    \/ wait_for_ui_update
    \/ wait_for_ui_update_settle
    \/ Return

\* the event loop resumes a coroutine whose sleep is over: a pass of a wait
\* loop that can be taken is taken
WaitFairness ==
    /\ WF_vars(start_sleep)
    /\ WF_vars(wait_for_ui_stable)
    /\ WF_vars(wait_for_ui_update)
    /\ WF_vars(wait_for_ui_update_settle)

SpecWait == Init /\ [][NextWait]_vars /\ WaitFairness

\* a wait loop is running
InWait == pc \in WaitPcs

\* the sleeps of a wait: one sample interval, and the settle delay, each with
\* the delay the scheduler may add
SampleSleep == SampleInterval + MaxJitter
SettleSleep == SettleDelay + MaxJitter

\* the time bounds of the waits, while they run and when they have returned
WaitDeadlines ==
    /\ pc = "ws_loop" => now - start_time < StableTimeout + SampleSleep
    /\ StableWaitDone => now - start_time < StableTimeout + SampleSleep
    /\ pc = "wu_loop" => now - start_time < UpdateTimeout + SampleSleep
    /\ pc = "wu_settle" => now - start_time < UpdateTimeout + SampleSleep
    /\ (op = "send_key" /\ wait_result # "none") =>
          now - start_time < UpdateTimeout + SampleSleep + SettleSleep
    /\ (op = "send_key" /\ wait_result = "False") =>
          now - start_time < UpdateTimeout + SampleSleep

\* C26: a wait loop that is running returns, whatever the screen does and
\* whether or not the child is alive, given that its sleeps end; and it
\* returns before its timeout plus one sample sleep (plus the settle sleep
\* for _wait_for_ui_update) has passed since it was entered.
C26_WaitsTerminate ==
    /\ [] WaitDeadlines
    /\ InWait ~> (pc = "done" /\ wait_result # "none")

\* the update wait has timed out after the child had exited
C26_Witness ==
    /\ op = "send_key" /\ pc = "done" /\ wait_result = "False"
    /\ process \notin alive
    /\ now - start_time >= UpdateTimeout

(* ------------------------ claims on sending ---------------------------- *)

\* the bytes the call in progress has to write
BytesOf == IF op = "send_key" THEN KeyLookup(arg) ELSE arg

\* the call began on a running session: the handle and the flag were set
OnRunningSession == pre.process # 0 /\ pre.running

\* C27: a send_key or send_text call never writes more than once; begun on
\* a running session whose write does not fail (it cannot while the child
\* lives) it has written exactly its bytes, once, by the time it waits and
\* ever after until it returns.  When the wait times out the call returns
\* False with the bytes written once and nothing else; without a wait it
\* returns True at once after the write.
C27_WritesOnce ==
    op \in Sends =>
        /\ Len(writes) <= 1
        /\ (OnRunningSession /\ ~pre.dead) => ~wfail
        /\ (OnRunningSession /\ ~wfail) => writes = <<BytesOf>>
        /\ pc \in {"wu_loop", "wu_settle"} => writes = <<BytesOf>>
        /\ wait_result = "False" =>
              /\ pc = "done" /\ result = "False"
              /\ writes = <<BytesOf>>
        /\ (OnRunningSession /\ ~wfail /\ ~wait) =>
              /\ pc = "done" /\ result = "True"
              /\ now = 0 /\ wait_result = "none"

\* a send_text on a live session whose wait timed out: False, the text
\* written once
C27_Witness ==
    /\ op = "send_text" /\ pc = "done"
    /\ ~pre.dead /\ process \in alive
    /\ wait_result = "False" /\ result = "False"
    /\ writes = <<arg>>

(* ------------------- reading a very wide screen ------------------------ *)

\* the width of a terminal whose left panel holds a number int() refuses
WideWidth == 12930

\* "● x +11...1 -1", the first number of one digit more than int() converts
LongRow ==
    <<9679, 32, 120, 32, 43>> \o [ i \in 1..(MaxStrDigits + 1) |-> 49 ]
        \o <<32, 45, 49>>

\* what a row of the list may show on the wide screen: "", "● d Running",
\* "> ⏸ b +12 -7" and the row with the long number
WideRows ==
    { << >>,
      <<9679, 32, 100, 32, 82, 117, 110, 110, 105, 110, 103>>,
      <<62, 32, 9208, 32, 98, 32, 43, 49, 50, 32, 45, 55>>,
      LongRow }

\* _capture_output(data): the child rewrites row i of the list
capture_output_wide(i) ==
    /\ \E r \in WideRows :
          /\ buffer[i] # r
          /\ buffer' = [buffer EXCEPT ![i] = r]
    /\ state' = NoState
    /\ prev_state' = NoState
    /\ captures' = 0
    /\ UNCHANGED <<width, height>>
    /\ UNCHANGED <<progvars, envvars, callvars, locals, obsvars, wsobs>>
    /\ UNCHANGED <<pty_dims, latervars>>

\* ClaudeSquadAutomator(width=12930, height=7): a blank grid, nothing read
InitWide ==
    /\ SessionInit
    /\ width = WideWidth
    /\ height = 7
    /\ buffer = BlankGrid(height)
    /\ state = NoState
    /\ prev_state = NoState
    /\ captures = 0

NextWide ==
    \/ get_screen_content
    \/ \E i \in 2..4 : capture_output_wide(i)

SpecWide == InitWide /\ [][NextWide]_vars

\* the left panel of row i holds a '+' followed by more digits than int()
\* converts
HasLongNumber(i) ==
    \E j \in 1..Len(buffer[i]) :
        /\ j < LeftPanelWidth
        /\ buffer[i][j] = 43
        /\ DigitsEnd(Take(buffer[i], LeftPanelWidth), j + 1) - j > MaxStrDigits

\* the listed rows whose extraction fails, and those it succeeds on
FailedRows == { i \in ListedRows : HasLongNumber(i) }
KeptRows == ListedRows \ FailedRows

\* C28: a listed row whose extraction fails gives no entry and does not
\* disturb the others: every other listed row, before or after it, gives
\* its entry, the entries are in row order, and their indices are 0..N-1
\* without a gap.
C28_FailedRowSkipped ==
    captures > 0 =>
        /\ Len(state.instances) = Cardinality(KeptRows)
        /\ \A k \in 1..Len(state.instances) : state.instances[k].index = k - 1
        /\ \A i \in KeptRows :
              state.instances[Before(KeptRows, i) + 1].status \in StatusesOf(i)

\* the row with the long number lies between two listed rows: it failed and
\* both of them were extracted
C28_Witness ==
    /\ captures > 0
    /\ FailedRows = {3}
    /\ KeptRows = {2, 4}
    /\ Len(state.instances) = 2
    /\ state.instances[1].status = "Running"
    /\ state.instances[2].status = "Paused"

(* ================== the processes one engine has spawned =============== *)

\* the children that live on although the engine holds no handle on them
Orphans == alive \ {process}

\* C32 as stated: one engine owns at most one live child, and every child it
\* has spawned is the one its handle names or has exited, whatever the
\* sequence of start and stop calls.
C32_OneLiveProcess ==
    /\ Cardinality(alive) <= 1
    /\ Orphans = {}

(* ================= send calls made while stop() is running ============= *)

\* the text of the check: "hi"
ConcText == <<104, 105>>

\* one session and two tasks: the first starts the session and sends keys
\* and text, with and without the wait; once the session is started (or
\* never was) the second calls stop(), at any point where a send of the
\* first is suspended or between two of its calls, and the first goes on
\* calling while that stop() sleeps and after it
NextStop ==
    \/ \E p \in Pids : ProcExit(p)
    \/ \E t \in ScreenTexts : capture_output(t)
    \/ nspawn = 0 /\ spc = "idle" /\ start_claude_squad
    \/ start_sleep
    \/ wait_for_ui_stable
    \/ \E w \in BOOLEAN : send_key(ConcKey, w)
    \/ \E w \in BOOLEAN : send_text(ConcText, w)
    \/ wait_for_ui_update
    \/ wait_for_ui_update_settle
    \/ Return
    \/ op # "start" /\ cstop
    \/ op # "start" /\ cstop_between
    \/ cstop_after_quit
    \/ cstop_after_terminate

SpecStop == Init /\ [][NextStop]_vars

\* C33: once stop() has begun, no step writes bytes of a send_key or
\* send_text call to the pty: the writes of the first task's call stay as
\* they were, until the call returns.
C33_NoSendAfterStop ==
    [][ spc # "idle" => (writes' = writes \/ writes' = << >>) ]_vars

\* a send_key called while stop() sleeps after its 'q', the child still
\* alive, has returned False and has written nothing
C33_Witness ==
    /\ spc = "after_quit"
    /\ process \in alive
    /\ op = "send_key"
    /\ pc = "done"
    /\ result = "False"
    /\ writes = << >>

(* ================ the selection and the tab, read again ================ *)

\* C35 as stated: whenever a ScreenState lists instances, its
\* selected_instance is an index into that list, wherever the marker sits.
C35_SelectedIsValidIndex ==
    (captures > 0 /\ Len(state.instances) > 0) =>
        /\ state.selected_instance >= 0
        /\ state.selected_instance < Len(state.instances)

\* row i holds all three tab labels
AllLabels(i) ==
    /\ Contains(RowText(i), Preview)
    /\ Contains(RowText(i), Diff)
    /\ Contains(RowText(i), Console)

\* in row i the block stands directly before the label
BlockAt(i, label) == Contains(RowText(i), <<GlyphBlock>> \o label)

\* C36 as stated: when the first of the top rows that holds the block and a
\* tab label holds all three labels, current_tab is the label the block
\* stands at: diff for "█Diff", console for "█Console".
C36_TabIsMarkedLabel ==
    captures > 0 =>
        \A i \in 1..Min2(5, height) :
            (TabRow(i) /\ AllLabels(i) /\ \A j \in 1..(i - 1) : ~TabRow(j)) =>
                /\ BlockAt(i, Diff) => state.current_tab = "diff"
                /\ BlockAt(i, Console) => state.current_tab = "console"

(* ----------------------- the dispatcher as a whole --------------------- *)
(* handle_call_tool wraps all its branches in one try/except Exception;    *)
(* handle_read_resource reads the screen and answers from it.              *)

\* the names handle_call_tool knows
ToolNames ==
    { "start_claude_squad", "create_instance", "navigate_to_instance",
      "switch_tab", "send_prompt", "scroll_content", "kill_instance",
      "checkout_instance", "resume_instance", "push_changes", "navigate",
      "send_key" }

\* names it does not know
UnknownTools == { "restart_instance", "" }

\* the tools whose branch begins by reading arguments[...] of a key the
\* schema requires: name, index, tab, prompt, direction, direction, key
NeedsArgument ==
    { "create_instance", "navigate_to_instance", "switch_tab", "send_prompt",
      "scroll_content", "navigate", "send_key" }

\* the one key of checkout_instance, resume_instance and push_changes
KeyOfTool(name) ==
    IF name = "checkout_instance" THEN <<99>>
    ELSE IF name = "resume_instance" THEN <<114>>
    ELSE <<112>>

\* the exception leaves the handler
except_Exception_reraised(name, e) ==
    /\ tpc' = "raised"
    /\ treply' = << >>

\* except Exception as e: the error is logged and returned as a text
except_Exception(name, e) ==
    /\ tpc' = "replied"
    /\ treply' = <<"Error executing ", name, ": ", e>>

\* a tool is called without the argument its branch reads first:
\* arguments["..."] raises KeyError before anything else is done
missing_argument(name) ==
    /\ ToolBegin(name, << >>)
    /\ except_Exception(name, "KeyError")
    /\ UNCHANGED <<tread, tleft>>
    /\ UNCHANGED <<progvars, envvars, callvars, locals, obsvars, wsobs,
                   parsevars, pty_dims, tool_rest>>

\* switch_tab with a tab that is none of the three: the screen is read, and
\* tabs.index(target_tab) raises ValueError before a key is sent
switch_tab_unlisted(target) ==
    /\ ToolBegin("switch_tab", target)
    /\ tread' = ReadOf(ScreenStateOf(ScreenLines))
    /\ except_Exception("switch_tab", "ValueError")
    /\ UNCHANGED tleft
    /\ UNCHANGED <<progvars, envvars, callvars, locals, obsvars, wsobs,
                   parsevars, pty_dims, tool_rest>>

\* else: return "Unknown tool: <name>"
unknown_tool(name) ==
    /\ name \notin ToolNames
    /\ ToolBegin(name, << >>)
    /\ tpc' = "replied"
    /\ treply' = <<"Unknown tool: ", name>>
    /\ UNCHANGED <<tread, tleft>>
    /\ UNCHANGED <<progvars, envvars, callvars, locals, obsvars, wsobs,
                   parsevars, pty_dims, tool_rest>>

\* checkout_instance, resume_instance, push_changes: one key lies ahead
one_key_tool(name) ==
    /\ ToolBegin(name, << >>)
    /\ tleft' = <<KeyOfTool(name)>>
    /\ tpc' = "keys"
    /\ UNCHANGED <<tread, treply>>
    /\ UNCHANGED <<progvars, envvars, callvars, locals, obsvars, wsobs,
                   parsevars, pty_dims, tool_rest>>

\* the tool send_key: key = arguments["key"] lies ahead
call_send_key(key) ==
    /\ ToolBegin("send_key", key)
    /\ tleft' = <<key>>
    /\ tpc' = "keys"
    /\ UNCHANGED <<tread, treply>>
    /\ UNCHANGED <<progvars, envvars, callvars, locals, obsvars, wsobs,
                   parsevars, pty_dims, tool_rest>>

\* the URIs of handle_list_resources, and one that is not listed
Uris ==
    { "claude-squad://screen/current", "claude-squad://instances/list",
      "claude-squad://content/preview", "claude-squad://content/diff",
      "claude-squad://content/console", "claude-squad://other" }

\* what handle_read_resource answers from the state it read at its start
ResourceOf(uri, current_state) ==
    IF uri = "claude-squad://screen/current"
    THEN << [ instances         |-> current_state.instances,
              selected_instance |-> current_state.selected_instance,
              current_tab       |-> current_state.current_tab,
              menu_items        |-> current_state.menu_items,
              error_message     |-> current_state.error_message ] >>
    ELSE IF uri = "claude-squad://instances/list"
    THEN << current_state.instances >>
    ELSE IF uri = "claude-squad://content/preview"
    THEN << current_state.tab_content >>
    ELSE IF uri = "claude-squad://content/diff"
    THEN << IF current_state.current_tab = "diff"
            THEN current_state.tab_content ELSE << >> >>
    ELSE IF uri = "claude-squad://content/console"
    THEN << IF current_state.current_tab = "console"
            THEN current_state.tab_content ELSE << >> >>
    ELSE << "Error reading resource: ", "Unknown resource URI: ", uri >>

\* handle_read_resource(uri): the screen is read; the answer is made from
\* it, but for the preview content while another tab is shown: then 'tab'
\* is passed to send_key, and the screen is read again after it
read_resource(uri) ==
    /\ ToolBegin("read_resource", uri)
    /\ LET current_state == ScreenStateOf(ScreenLines)
       IN  /\ tread' = ReadOf(current_state)
           /\ IF uri = "claude-squad://content/preview"
                 /\ current_state.current_tab # "preview"
              THEN /\ tleft' = <<KeyTab>>
                   /\ tpc' = "keys"
                   /\ UNCHANGED treply
              ELSE /\ tleft' = << >>
                   /\ tpc' = "replied"
                   /\ treply' = ResourceOf(uri, current_state)
    /\ UNCHANGED <<progvars, envvars, callvars, locals, obsvars, wsobs,
                   parsevars, pty_dims, tool_rest>>

\* the keys a client passes to the tool send_key: 'enter', 'x'
ToolKeys == { KeyEnter, <<120>> }

\* the dispatcher over one session: it is started at most once, the child
\* redraws the screen and may exit at any time; tools are called with and
\* without their arguments, under names known and unknown, and resources
\* are read
NextDispatch ==
    \/ \E p \in Pids : ProcExit(p)
    \/ \E t \in ScreenTexts : capture_output(t)
    \/ \E g \in ToolScreens : capture_output_screen(g)
    \/ tool = "none" /\ nspawn = 0 /\ start_claude_squad
    \/ start_sleep
    \/ wait_for_ui_stable
    \/ tool = "none" /\ Return
    \/ \E name \in NeedsArgument : missing_argument(name)
    \/ switch_tab_unlisted("logs")
    \/ \E name \in UnknownTools : unknown_tool(name)
    \/ \E name \in {"checkout_instance", "resume_instance", "push_changes"} :
          one_key_tool(name)
    \/ \E key \in ToolKeys : call_send_key(key)
    \/ \E uri \in Uris : read_resource(uri)
    \/ tool_send_key
    \/ wait_for_ui_update
    \/ wait_for_ui_update_settle
    \/ tool_resume
    \/ tool_reply
    \/ tool_return

SpecDispatch == InitTools /\ [][NextDispatch]_vars

\* a call that ended in its branch before any key was passed on, the branch
\* being one that reads a required argument first
EndedEarly ==
    /\ tool \in NeedsArgument
    /\ tpc \in {"replied", "raised"}
    /\ tsent = << >>
    /\ tleft = << >>

\* C31: no exception leaves handle_call_tool: a call that raises (a missing
\* argument, a tab that is not listed) returns the text "Error executing
\* <name>: ...", and an unknown name returns "Unknown tool: <name>" with no
\* key passed to the session and no byte written to it.
C31_NoExceptionEscapes ==
    /\ tpc # "raised"
    /\ tpc = "replied" => treply # << >>
    /\ EndedEarly => (treply[1] = "Error executing " /\ treply[2] = tool)
    /\ (tool \in UnknownTools /\ tpc = "replied") =>
          /\ treply = <<"Unknown tool: ", tool>>
          /\ tsent = << >>
          /\ twrites = << >>

\* on a live session switch_tab was called with a tab that is not listed
\* and has returned its error text
C31_Witness ==
    /\ LiveSession
    /\ tool = "switch_tab"
    /\ tpc = "replied"
    /\ treply = <<"Error executing ", "switch_tab", ": ", "ValueError">>

\* the texts with which the one-key tools report success
SuccessTexts ==
    { "Sent key: ", "Instance checked out (paused)", "Instance resumed",
      "Changes pushed to git" }

\* C37 as stated: a tool that passes keys to a session that was never
\* started does not answer with its success text.
C37_FailureIsReported ==
    (tpc = "replied" /\ session = "never" /\ tsent # << >>) =>
        treply[1] \notin SuccessTexts

\* C38 as stated: whatever the URI and the screen, reading a resource
\* writes no byte to the pty.
C38_ReadWritesNothing ==
    tool = "read_resource" => twrites = << >>

(* ================ two tool calls handled at the same time ============== *)
(* The server handles every request in a task of its own on one event     *)
(* loop; handle_call_tool takes no lock, so a second call runs whenever   *)
(* the first is suspended in an await.                                     *)

Tasks == {1, 2}

\* the name and the prompt of the check: "a", "go"
InstanceName == <<97>>
Prompt == <<103, 111>>

\* create_instance: 'n' (or 'N'), a pause of 0.5 s, the name, 'enter', and
\* with a prompt a pause of 1 s, the prompt and 'enter'
create_instance_steps(with_prompt) ==
    << <<"key", IF with_prompt THEN <<78>> ELSE <<110>>>>, <<"sleep">>,
       <<"text", InstanceName>>, <<"key", KeyEnter>> >>
    \o IF with_prompt
       THEN << <<"sleep">>, <<"text", Prompt>>, <<"key", KeyEnter>> >>
       ELSE << >>

\* send_prompt: 'o', a pause of 1 s, the prompt, 'enter', 'ctrl_c'
send_prompt_steps ==
    << <<"key", <<111>>>>, <<"sleep">>, <<"text", Prompt>>,
       <<"key", KeyEnter>>, <<"key", <<99, 116, 114, 108, 95, 99>>>> >>

\* the bytes a step writes: send_key translates, send_text does not
StepBytes(step) == IF step[1] = "key" THEN KeyLookup(step[2]) ELSE step[2]

\* the event loop runs one task at a time: task t may run when the other is
\* not in the middle of a stretch without an await
MayRun(t) == \A u \in Tasks \ {t} : calls[u].at # "running"

\* a request arrives and its handler is scheduled
call_tool(t, name, steps) ==
    /\ pc = "idle"
    /\ calls[t].at = "idle"
    /\ calls' = [calls EXCEPT ![t] = [tool |-> name, left |-> steps, at |-> "ready"]]
    /\ UNCHANGED ptylog
    /\ UNCHANGED <<progvars, envvars, callvars, locals, obsvars, wsobs,
                   parsevars, pty_dims, shared_rest>>

\* the next statement of the handler of task t.  asyncio.sleep suspends it.
\* send_key / send_text return False at once when the session is not
\* running or the write raises, and the handler goes on in the same
\* stretch; otherwise the bytes are written and the task is suspended in
\* _wait_for_ui_update, which awaits at least one sleep
task_step(t) ==
    /\ calls[t].at \in {"ready", "running"}
    /\ MayRun(t)
    /\ calls[t].left # << >>
    /\ LET step == Head(calls[t].left)
           rest == Tail(calls[t].left)
       IN  IF step[1] = "sleep"
           THEN /\ calls' = [calls EXCEPT ![t].left = rest, ![t].at = "waiting"]
                /\ UNCHANGED ptylog
           ELSE IF NotRunning
           THEN /\ calls' = [calls EXCEPT ![t].left = rest, ![t].at = "running"]
                /\ UNCHANGED ptylog
           ELSE \E outcome \in WriteOutcomes(process) :
                IF outcome = "ok"
                THEN /\ ptylog' = Append(ptylog, <<t, StepBytes(step)>>)
                     /\ calls' = [calls EXCEPT ![t].left = rest, ![t].at = "waiting"]
                ELSE /\ calls' = [calls EXCEPT ![t].left = rest, ![t].at = "running"]
                     /\ UNCHANGED ptylog
    /\ UNCHANGED <<progvars, envvars, callvars, locals, obsvars, wsobs,
                   parsevars, pty_dims, shared_rest>>

\* the await of task t is over (the sleep has ended, or the wait for the
\* update has returned; its result is not looked at)
task_wake(t) ==
    /\ calls[t].at = "waiting"
    /\ calls' = [calls EXCEPT ![t].at = "ready"]
    /\ UNCHANGED ptylog
    /\ UNCHANGED <<progvars, envvars, callvars, locals, obsvars, wsobs,
                   parsevars, pty_dims, shared_rest>>

\* the handler of task t returns its text
task_reply(t) ==
    /\ calls[t].at \in {"ready", "running"}
    /\ MayRun(t)
    /\ calls[t].left = << >>
    /\ calls' = [calls EXCEPT ![t].at = "done"]
    /\ UNCHANGED ptylog
    /\ UNCHANGED <<progvars, envvars, callvars, locals, obsvars, wsobs,
                   parsevars, pty_dims, shared_rest>>

\* both clients have their texts; the next calls start from a clean slate
calls_return ==
    /\ \A t \in Tasks : calls[t].at \in {"idle", "done"}
    /\ \E t \in Tasks : calls[t].at = "done"
    /\ calls' = [t \in Tasks |-> [tool |-> "none", left |-> << >>, at |-> "idle"]]
    /\ ptylog' = << >>
    /\ UNCHANGED <<progvars, envvars, callvars, locals, obsvars, wsobs,
                   parsevars, pty_dims, shared_rest>>

\* no tool call is being handled
NoCalls == \A t \in Tasks : calls[t].at = "idle"

\* one session, started at most once before the calls, the child exiting
\* at any time; create_instance and send_prompt are called, alone or while
\* the other call is being handled.  What the screen shows is not looked at
\* by these tools, and how long a wait lasts is left open
NextShared ==
    \/ \E p \in Pids : ProcExit(p)
    \/ NoCalls /\ nspawn = 0 /\ start_claude_squad
    \/ start_sleep
    \/ wait_for_ui_stable
    \/ NoCalls /\ Return
    \/ \E t \in Tasks, with_prompt \in BOOLEAN :
          call_tool(t, "create_instance", create_instance_steps(with_prompt))
    \/ \E t \in Tasks : call_tool(t, "send_prompt", send_prompt_steps)
    \/ \E t \in Tasks : task_step(t)
    \/ \E t \in Tasks : task_wake(t)
    \/ \E t \in Tasks : task_reply(t)
    \/ calls_return

SpecShared == InitTools /\ [][NextShared]_vars

\* C34 as stated: what one tool call writes to the pty is one contiguous
\* run of the log: no write of the other call lies between two of its own.
C34_KeysContiguous ==
    \A i \in 1..Len(ptylog) : \A k \in (i + 1)..Len(ptylog) :
        ptylog[i][1] = ptylog[k][1] =>
            \A j \in i..k : ptylog[j][1] = ptylog[i][1]

(* ---------------------- the enhanced orchestrator ---------------------- *)
(* oxigraph_service_enhanced.py: the store takes its lock for each single  *)
(* operation (add_triples, remove_triples_by_pattern, query); the service  *)
(* runs threaded, one thread per request.                                  *)

Threads == {1, 2}

\* create_task of the enhanced service: the status is always "pending"; all
\* triples are added in one add_triples call, under the lock
enhanced_create_task(id, priority, dependencies) ==
    /\ store' = store \cup
                  { <<id, "rdf:type", "cs:Task">>,
                    <<id, "cs:hasDescription", "d">>,
                    <<id, "cs:hasStatus", "pending">>,
                    <<id, "cs:hasPriority", priority>>,
                    <<id, "cs:createdAt", "t">> }
                  \cup { <<id, "cs:dependsOn", dep_id>> : dep_id \in dependencies }
    /\ ready' = << >>
    /\ rlimit' = 0
    /\ UNCHANGED upd
    /\ UNCHANGED <<progvars, envvars, callvars, locals, obsvars, wsobs,
                   parsevars, pty_dims, thread_rest>>

\* store.remove_triples_by_pattern(task, cs:hasStatus, None): the lock is
\* taken, the status triples are removed, the lock is released; the new
\* triples are added later, in another hold of the lock
RemoveThenAdd(th, task_id, status) ==
    /\ store' = { x \in store : ~(x[1] = task_id /\ x[2] = "cs:hasStatus") }
    /\ upd' = [upd EXCEPT ![th] = [task |-> task_id, status |-> status, at |-> "removed"]]

\* update_task_status called by thread th, up to the release of the lock
\* by remove_triples_by_pattern
enhanced_update_task_status(th, task_id, status) ==
    /\ upd[th].at = "idle"
    /\ RemoveThenAdd(th, task_id, status)
    /\ ready' = << >>
    /\ rlimit' = 0
    /\ UNCHANGED <<progvars, envvars, callvars, locals, obsvars, wsobs,
                   parsevars, pty_dims, thread_rest>>

\* store.add_triples(triples): the lock is taken and the new status is added
enhanced_add_triples(th) ==
    /\ upd[th].at = "removed"
    /\ store' = store \cup { <<upd[th].task, "cs:hasStatus", upd[th].status>> }
    /\ upd' = [upd EXCEPT ![th] = [task |-> 0, status |-> "", at |-> "idle"]]
    /\ ready' = << >>
    /\ rlimit' = 0
    /\ UNCHANGED <<progvars, envvars, callvars, locals, obsvars, wsobs,
                   parsevars, pty_dims, thread_rest>>

\* get_ready_tasks of the enhanced service, run by a thread of its own as
\* one query under the lock: the pattern of the basic service and
\* cs:createdAt, the same filter on the dependencies
enhanced_get_ready_tasks(limit) ==
    /\ rlimit = 0
    /\ \E q \in Ordered({ sol \in Solutions : Objects(sol[1], "cs:createdAt") # {} }) :
          ready' = [ i \in 1..Min2(limit, Len(q)) |-> q[i][1] ]
    /\ rlimit' = limit
    /\ UNCHANGED <<store, upd>>
    /\ UNCHANGED <<progvars, envvars, callvars, locals, obsvars, wsobs,
                   parsevars, pty_dims, thread_rest>>

\* the caller has the list
enhanced_forget_ready ==
    /\ rlimit # 0
    /\ ready' = << >>
    /\ rlimit' = 0
    /\ UNCHANGED <<store, upd>>
    /\ UNCHANGED <<progvars, envvars, callvars, locals, obsvars, wsobs,
                   parsevars, pty_dims, thread_rest>>

\* tasks are created once each; two request threads update their statuses
\* and a third asks for the ready tasks, at any time
NextEnhanced ==
    \/ \E id \in TaskIds, priority \in Priorities :
          \E dependencies \in SUBSET (TaskIds \ {id}) :
             ~IsTask(id) /\ enhanced_create_task(id, priority, dependencies)
    \/ \E th \in Threads, task_id \in TaskIds, status \in Statuses :
          IsTask(task_id) /\ enhanced_update_task_status(th, task_id, status)
    \/ \E th \in Threads : enhanced_add_triples(th)
    \/ \E limit \in Limits : enhanced_get_ready_tasks(limit)
    \/ enhanced_forget_ready

SpecEnhanced == Init /\ [][NextEnhanced]_vars

\* C39 as stated: in every state of the store another thread can observe,
\* every created task has exactly one status.
C39_OneStatus ==
    \A t \in TaskIds : IsTask(t) => Cardinality(StatusSet(t)) = 1

(* ============================ OrderProcessor =========================== *)
(* src/test.py: an inventory, and orders processed against it.             *)

\* how many orders are processed before the books are closed
MaxOrders == 2

\* the SKUs of the stock, and one that is never loaded
Skus == {"A", "B"}
OrderSkus == {"A", "B", "C"}

\* the items load_inventory is given: a sku, a quantity from 0 to 2 and the
\* price 3, no category
StockItems == [sku : Skus, qty : 0..2, price : {3}]

\* the items of an order: a sku and a quantity of 1 or 2
OrderItems == [sku : OrderSkus, quantity : 1..2]

\* lists of one or two of them
Lists(S) == { <<x>> : x \in S } \cup { <<x, y>> : x \in S, y \in S }

\* sku in self.inventory
InStock(inv, sku) == \E e \in inv : e.sku = sku

\* self.inventory[sku]
Entry(inv, sku) == CHOOSE e \in inv : e.sku = sku

\* self.inventory[item['sku']] = {...}: the entry of the sku is replaced
Loaded(inv, item) ==
    { e \in inv : e.sku # item.sku }
    \cup { [sku |-> item.sku, quantity |-> item.qty, price |-> item.price,
            category |-> "general"] }

\* load_inventory: the items are stored one after the other
load_inventory(inventory_data) ==
    /\ LET f[k \in 0..Len(inventory_data)] ==
               IF k = 0 THEN inventory ELSE Loaded(f[k - 1], inventory_data[k])
       IN  inventory' = f[Len(inventory_data)]
    /\ inventory' # inventory
    /\ UNCHANGED <<processed_orders, oresult>>
    /\ UNCHANGED <<progvars, envvars, callvars, locals, obsvars, wsobs,
                   parsevars, pty_dims, order_rest>>

\* validate_order_items: the first item that is not in the inventory, or
\* asks for more than the inventory holds of its sku, fails the order; each
\* item is compared with the stock on its own
validate_order_items(order_items) ==
    LET bad == { k \in 1..Len(order_items) :
                   \/ ~InStock(inventory, order_items[k].sku)
                   \/ Entry(inventory, order_items[k].sku).quantity
                          < order_items[k].quantity }
    IN  IF bad = {} THEN <<TRUE, "Valid">>
        ELSE LET k == CHOOSE x \in bad : \A y \in bad : x <= y
             IN  IF ~InStock(inventory, order_items[k].sku)
                 THEN <<FALSE, "not found", order_items[k].sku>>
                 ELSE <<FALSE, "Insufficient stock", order_items[k].sku>>

\* sum of price * quantity over the items of the order whose category is
\* one of cs
Subtotal(order_items, cs) ==
    LET f[k \in 0..Len(order_items)] ==
            IF k = 0 THEN 0
            ELSE f[k - 1] + (IF Entry(inventory, order_items[k].sku).category \in cs
                             THEN Entry(inventory, order_items[k].sku).price
                                      * order_items[k].quantity
                             ELSE 0)
    IN  f[Len(order_items)]

\* calculate_order_total without a user: the subtotal, less a tenth of the
\* total of every category whose total is above 500; in tenths of a unit
calculate_order_total(order_items) ==
    LET categories == { Entry(inventory, order_items[k].sku).category :
                          k \in 1..Len(order_items) }
        subtotal == Subtotal(order_items, categories)
        Total(c) == Subtotal(order_items, {c})
        Bulk[cs \in SUBSET categories] ==
            IF cs = {} THEN 0
            ELSE LET c == CHOOSE x \in cs : TRUE
                 IN  (IF Total(c) > 500 THEN Total(c) ELSE 0) + Bulk[cs \ {c}]
    IN  Max2(10 * subtotal - Bulk[categories], 0)

\* the inventory after `self.inventory[sku]['quantity'] -= item['quantity']`
\* for each item of the order in turn
Deducted(inv, order_items) ==
    LET f[k \in 0..Len(order_items)] ==
            IF k = 0 THEN inv
            ELSE LET item == order_items[k]
                     e == Entry(f[k - 1], item.sku)
                 IN  (f[k - 1] \ {e})
                     \cup { [e EXCEPT !.quantity = @ - item.quantity] }
    IN  f[Len(order_items)]

\* process_order(order), the order giving its items only: it is validated;
\* a valid order is priced, deducted from the inventory and appended to
\* processed_orders
process_order(order_items) ==
    /\ Len(processed_orders) < MaxOrders
    /\ LET order_id == <<"order_", Len(processed_orders)>>
           valid == validate_order_items(order_items)
       IN  IF ~valid[1]
           THEN /\ oresult' = [order_id |-> order_id, status |-> "failed",
                               error |-> Tail(valid)]
                /\ UNCHANGED <<inventory, processed_orders>>
           ELSE LET processed_order ==
                        [order_id |-> order_id, items |-> order_items,
                         total |-> calculate_order_total(order_items),
                         status |-> "completed"]
                IN  /\ inventory' = Deducted(inventory, order_items)
                    /\ processed_orders' = Append(processed_orders, processed_order)
                    /\ oresult' = processed_order
    /\ UNCHANGED <<progvars, envvars, callvars, locals, obsvars, wsobs,
                   parsevars, pty_dims, order_rest>>

NextOrders ==
    \/ \E inventory_data \in Lists(StockItems) : load_inventory(inventory_data)
    \/ \E order_items \in Lists(OrderItems) : process_order(order_items)

SpecOrders == Init /\ [][NextOrders]_vars

\* C40 as stated: no quantity of the inventory is ever negative.
C40_StockNeverNegative ==
    \A e \in inventory : e.quantity >= 0

====
